---- MODULE Spec2Model ----
(***************************************************************************)
(* A model of the magpkg package store (magpkg/src/store.rs): the          *)
(* coordinator operations build_packages / build_single / fetch_packages / *)
(* cache_fetch run by several processes that share one store directory,    *)
(* and the cleanup sweeper.  The store directory is modelled as the files  *)
(* the code creates, tests and removes; advisory locks (flock) attach to   *)
(* the inode a process opened, not to the path, as on the host.            *)
(*                                                                         *)
(* Time is abstract: every path carries one bit, "old", meaning its mtime  *)
(* lies before the cutoff (now - expiry) of a cleanup run started now.     *)
(* touch_path and file creation clear the bit; TimePasses sets it.         *)
(* I/O errors of the host file system (EIO, ENOSPC, ...) are not modelled, *)
(* but for one: where env.rmFails is set, remove_dir_all of a build        *)
(* directory fails.  The errors the code produces itself, and ENOENT where *)
(* another process removed a path, are modelled.                           *)
(*                                                                         *)
(* The torrent fetcher (btfetcher.rs) appears with its session directory, *)
(* the lock file in it, the work dir of a download, and its worker thread  *)
(* with the command queue (ts.wk); ts.sess["x"] and ts.top are what a      *)
(* killed process left behind (env.left).                                  *)
(*                                                                         *)
(* The seeder (btseed.rs) appears with its lock on seeder.lock and its     *)
(* removal of expired mirror directories.  The package graph               *)
(* builder (package.rs) is a second specification, GraphSpec, that         *)
(* evaluates manifests of package objects; SHA-256 is an injective digest. *)
(***************************************************************************)
EXTENDS Integers, Sequences, FiniteSets, TLC

VARIABLES
    \* ---- inputs, fixed by Init ----
    deps,       \* deps[p] = [run |-> Seq(Pkgs), build |-> Seq(Pkgs)]: Package.run_deps / build_deps
    task,       \* task[w] = [op, roots, missing_only]: the CLI command worker w runs
    cleanLeft,  \* cleanup invocations still allowed
    env,        \* [seeder, rmFails, left]: a seeder runs; removing a build dir fails; leftovers
    \* ---- <store>/pkgs ----
    art,        \* art[b]  : <base>.tar.zst : "none" | "fresh" | "old"
    bdir,       \* bdir[b] : <base>.build/  : [ex |-> exists, files |-> workers whose files it holds]
    \* ---- lock files, <store>/pkgs/<base>.lock and <store>/fetch/<sha>.lock ----
    lockIno,    \* lockIno[n]: inode the path names, 0 = no such file
    lockOld,    \* lockOld[n]: mtime of the lock file is before the cutoff
    \* ---- <store>/fetch and <store>/torrent ----
    ffile,      \* ffile[s] : <fetch_root>/<sha>     : [c |-> content, old |-> BOOLEAN, by |-> writer]
    ftmp,       \* ftmp[s]  : <fetch_root>/<sha>.tmp : same shape
    mirror,     \* mirror[i]: <torrent_root>/<info_hash>/ : [torrent, payload, old] or NoMirror
    \* ---- worker processes ----
    pc,         \* control point of worker w
    run,        \* number of CLI invocations worker w has started
    order,      \* build_packages: `order`; fetch_packages: `queue`
    idx,        \* position in order
    arts,       \* build_packages: `artifacts`
    fdP,        \* the package lock_file worker w has open: NoFd or [name, ino, locked]
    fdF,        \* the fetch lock_file worker w has open
    fidx,       \* prepare_fetches / fetch_packages: position in the package's fetch list
    cf,         \* locals of the cache_fetch call in progress
    fetcher,    \* PackageStore.torrent_fetcher is Some
    result,     \* result[w][r]: outcome of invocation r: NoResult or [ok, err, arts]
    \* ---- cleanup process ----
    gc,         \* [pc, todo, cur, fd, rm, snap, stats]: the cleanup process's position and locals
    \* ---- the seeder process and <store>/seed/seeder.lock ----
    seed,       \* [pc, lock]: the seeder's position; who holds the lock of seeder.lock
    \* ---- torrent sessions and work dirs under <store>/fetch ----
    ts,         \* [sess, top, ctr, wk]: .torrent-session-* dirs, <sha>.torrent-work-*
                \* dirs, and wk[w] = [st, q]: the fetcher's worker and its command queue
    \* ---- the package graph builder (package.rs) ----
    gb,         \* [objs, roots, next, by_obj, by_hash, out]: manifest and PackageGraphBuilder
    \* ---- history (observations, no effect on the code's behaviour) ----
    hist,       \* per worker: what its build_single / cache_fetch calls did
    obs         \* cleanup runs: what each returned and what else happened meanwhile

storeVars  == <<art, bdir, lockIno, lockOld, ffile, ftmp, mirror>>
inputVars  == <<deps, task, env>>
sideVars   == <<seed, gb, ts>>
workerVars == <<pc, run, order, idx, arts, fdP, fdF, fidx, cf, fetcher, result>>
vars == <<deps, task, cleanLeft, env, art, bdir, lockIno, lockOld, ffile, ftmp, mirror,
          pc, run, order, idx, arts, fdP, fdF, fidx, cf, fetcher, result, gc, seed, ts, gb,
          hist, obs>>

---------------------------------------------------------------------------
(* Bounds of the model. *)

\* CLI invocations per worker process slot (the second repeats the first).
MaxRuns == 2
\* cleanup invocations in one behaviour.
MaxCleanups == 2

Workers == {"w1", "w2"}
Procs == Workers \cup {"gc"}
\* session directories: one a worker's fetcher makes, one ("x") a killed process left
SessIds == Workers \cup {"x"}

---------------------------------------------------------------------------
(* Packages.  A Package node is identified by its content hash (the graph  *)
(* builder keeps one node per hash).                                       *)

NoDir    == [ex |-> FALSE, files |-> {}]
NoFd     == [name |-> "none", ino |-> 0, locked |-> FALSE]
NoResult == [ok |-> FALSE, err |-> "pending", arts |-> <<>>]
\* no session directory; of one that exists: the lock file in it, who holds the
\* flock of that file's inode ("own": the fetcher), the work dir under downloads/
NoSess   == [dir |-> FALSE, old |-> FALSE, lockf |-> FALSE, held |-> "none", wd |-> "none",
             id |-> 0]

\* FetchResource { filename, sha256, urls }
R_file  == [filename |-> "x.tar.gz", sha256 |-> "s1", urls |-> <<"file">>]
R_none  == [filename |-> "x.tar.gz", sha256 |-> "s1", urls |-> <<>>]
R_http  == [filename |-> "x.tar.gz", sha256 |-> "s1", urls |-> <<"http">>]
R_multi == [filename |-> "x.tar.gz", sha256 |-> "s1", urls |-> <<"http", "magnet", "file">>]
R_two   == [filename |-> "x.tar.gz", sha256 |-> "s1", urls |-> <<"http", "file">>]
\* a magnet link without a supported info hash, and a file URL
R_badm  == [filename |-> "x.tar.gz", sha256 |-> "s1",
            urls |-> <<"badmagnet", "dottorrent", "file">>]

\* Package { name, build, hash, fetch }; run_deps / build_deps are in `deps`.
PkgDef == [
    h_lib |-> [name |-> "lib", build |-> "make",  fetch |-> <<>>],
    h_src |-> [name |-> "",    build |-> "untar", fetch |-> <<R_file>>],
    h_app |-> [name |-> "app", build |-> "make",  fetch |-> <<>>],
    h_top |-> [name |-> "top", build |-> "",      fetch |-> <<>>],
    h_d0  |-> [name |-> "d0",  build |-> "make",  fetch |-> <<R_none>>],
    h_d1  |-> [name |-> "d1",  build |-> "make",  fetch |-> <<R_http>>],
    h_d2  |-> [name |-> "d2",  build |-> "make",  fetch |-> <<R_two>>],
    h_d3  |-> [name |-> "d3",  build |-> "make",  fetch |-> <<R_multi>>],
    h_d4  |-> [name |-> "d4",  build |-> "make",  fetch |-> <<R_badm>>] ]

Pkgs == DOMAIN PkgDef
Shas == {"s1"}

\* store.rs:1528  package_base_name, of a package's name and hash
BaseName(name, hash) == IF name # "" THEN name \o "-" \o hash ELSE "pkg-" \o hash
package_base_name(p) == BaseName(PkgDef[p].name, p)

Bases == {package_base_name(p) : p \in Pkgs}
LockNames == Bases \cup Shas

---------------------------------------------------------------------------
(* The package graph builder (package.rs:28-141, 336-362).  A manifest is  *)
(* a set of Jsonnet objects, gb.objs, each with name, build, fetch and the *)
(* objects its runDeps and buildDeps list; gb.roots are the items of the   *)
(* manifest array.  The manifests here are acyclic.                        *)

\* longest runDeps list of a manifest object
MaxDeps == 3

NUL == "\\0"
\* SHA-256 as lowercase hex: a digest stands for the bytes hashed, so two digests
\* are equal iff the bytes are; the brackets make it one token of fixed width
Digest(bytes) == "<" \o bytes \o ">"

RECURSIVE FetchBytes(_)
\* package.rs:346-351  filename \0 sha256 \0 for each fetch
FetchBytes(fetch) ==
    IF fetch = <<>> THEN ""
    ELSE Head(fetch).filename \o NUL \o Head(fetch).sha256 \o NUL \o FetchBytes(Tail(fetch))

RECURSIVE HashBytes(_)
\* package.rs:353-355, 357-359  dep.hash for each dependency, nothing in between
HashBytes(pkgs) ==
    IF pkgs = <<>> THEN "" ELSE Head(pkgs).hash \o HashBytes(Tail(pkgs))

\* a hash that leaves the run dependencies out
compute_hash_norun(build, fetch, run_deps, build_deps) ==
    Digest("build:" \o build \o NUL \o "fetch" \o NUL \o FetchBytes(fetch)
           \o NUL \o "run" \o NUL
           \o NUL \o "build" \o NUL \o HashBytes(build_deps))
\* package.rs:336-362  compute_hash
compute_hash(build, fetch, run_deps, build_deps) ==
    Digest("build:" \o build \o NUL \o "fetch" \o NUL \o FetchBytes(fetch)
           \o NUL \o "run" \o NUL \o HashBytes(run_deps)
           \o NUL \o "build" \o NUL \o HashBytes(build_deps))

EmptyMap == [x \in {} |-> {}]

\* a hash cache that never has the hash
HashCached_never(by_hash, hash) == FALSE
\* package.rs:97  self.by_hash.get(&hash) is Some
HashCached(by_hash, hash) == hash \in DOMAIN by_hash

\* package.rs:203-221  validate_package_name: a name with '/' (or a line break) is
\* refused.  The name "" stands for an object without the field name (None).
InvalidNames == {"a/b"}
NoPkg == [name |-> "", build |-> "", hash |-> "", run_deps |-> <<>>, build_deps |-> <<>>,
          fetch |-> <<>>]
\* build_from_val returns Err(e); the maps keep what was inserted before
Failed(st, e) == [by_obj |-> st.by_obj, by_hash |-> st.by_hash, visiting |-> st.visiting,
                  err |-> e, pkg |-> NoPkg]
Reentered_stub(st, o) ==
    [by_obj |-> st.by_obj, by_hash |-> st.by_hash, visiting |-> st.visiting, err |-> "none",
     pkg |-> [NoPkg EXCEPT !.hash = Digest(o)]]
\* package.rs:76-78  the key is already in `visiting`
Reentered(st, o) == Failed(st, "DependencyCycle")

RECURSIVE build_from_val(_, _, _), collect_dependencies(_, _, _)
\* a build_from_val that leaves the key in `visiting` when it returns a package
build_from_val_keep(objs, o, st) ==
    IF o \in DOMAIN st.by_obj
    THEN [by_obj |-> st.by_obj, by_hash |-> st.by_hash, visiting |-> st.visiting,
          err |-> "none", pkg |-> st.by_obj[o]]
    ELSE IF o \in st.visiting THEN Reentered(st, o)
    ELSE IF objs[o].name \in InvalidNames THEN Failed(st, "Generic")
    ELSE LET v == [by_obj |-> st.by_obj, by_hash |-> st.by_hash,
                   visiting |-> st.visiting \cup {o}]
             r == collect_dependencies(objs, objs[o].runDeps, v)
             b == collect_dependencies(objs, objs[o].buildDeps, r)
             hash == compute_hash(objs[o].build, objs[o].fetch, r.deps, b.deps)
             package == [name |-> objs[o].name, build |-> objs[o].build, hash |-> hash,
                         run_deps |-> r.deps, build_deps |-> b.deps,
                         fetch |-> objs[o].fetch]
         IN  IF r.err # "none" THEN Failed([r EXCEPT !.visiting = st.visiting], r.err)
             ELSE IF b.err # "none" THEN Failed([b EXCEPT !.visiting = st.visiting], b.err)
             ELSE IF HashCached(b.by_hash, hash)
             THEN [by_obj |-> (o :> b.by_hash[hash]) @@ b.by_obj, by_hash |-> b.by_hash,
                   visiting |-> b.visiting, err |-> "none", pkg |-> b.by_hash[hash]]
             ELSE [by_obj |-> (o :> package) @@ b.by_obj,
                   by_hash |-> (hash :> package) @@ b.by_hash,
                   visiting |-> b.visiting, err |-> "none", pkg |-> package]
\* package.rs:61-110  build_from_val: the identity cache, the visiting set, the
\* name, the dependencies, the hash, the hash cache, a new node.
\* st = [by_obj, by_hash, visiting]; the result adds err and pkg.
build_from_val(objs, o, st) ==
    IF o \in DOMAIN st.by_obj
    THEN [by_obj |-> st.by_obj, by_hash |-> st.by_hash, visiting |-> st.visiting,
          err |-> "none", pkg |-> st.by_obj[o]]
    ELSE IF o \in st.visiting THEN Reentered(st, o)
    ELSE IF objs[o].name \in InvalidNames THEN Failed(st, "Generic")
    ELSE LET v == [by_obj |-> st.by_obj, by_hash |-> st.by_hash,
                   visiting |-> st.visiting \cup {o}]
             r == collect_dependencies(objs, objs[o].runDeps, v)
             b == collect_dependencies(objs, objs[o].buildDeps, r)
             hash == compute_hash(objs[o].build, objs[o].fetch, r.deps, b.deps)
             package == [name |-> objs[o].name, build |-> objs[o].build, hash |-> hash,
                         run_deps |-> r.deps, build_deps |-> b.deps,
                         fetch |-> objs[o].fetch]
         IN  IF r.err # "none" THEN Failed([r EXCEPT !.visiting = st.visiting], r.err)
             ELSE IF b.err # "none" THEN Failed([b EXCEPT !.visiting = st.visiting], b.err)
             ELSE IF HashCached(b.by_hash, hash)
             THEN [by_obj |-> (o :> b.by_hash[hash]) @@ b.by_obj, by_hash |-> b.by_hash,
                   visiting |-> st.visiting, err |-> "none", pkg |-> b.by_hash[hash]]
             ELSE [by_obj |-> (o :> package) @@ b.by_obj,
                   by_hash |-> (hash :> package) @@ b.by_hash,
                   visiting |-> st.visiting, err |-> "none", pkg |-> package]
\* package.rs:112-149  collect_dependencies: build_from_val of each item, in order;
\* `?` returns the first error
collect_dependencies(objs, list, st) ==
    IF list = <<>>
    THEN [by_obj |-> st.by_obj, by_hash |-> st.by_hash, visiting |-> st.visiting,
          err |-> "none", deps |-> <<>>]
    ELSE LET h == build_from_val(objs, Head(list), st) IN
         IF h.err # "none"
         THEN [by_obj |-> h.by_obj, by_hash |-> h.by_hash, visiting |-> h.visiting,
               err |-> h.err, deps |-> <<>>]
         ELSE LET t == collect_dependencies(objs, Tail(list), h)
              IN  [t EXCEPT !.deps = <<h.pkg>> \o @]

NoGb == [objs |-> EmptyMap, roots |-> <<>>, next |-> 1, swap |-> <<>>,
         by_obj |-> EmptyMap, by_hash |-> EmptyMap, out |-> <<>>, err |-> "none"]

\* package.rs:35-58  packages_from_value: add_package of the next item of the array,
\* with a new `visiting` set; `?` ends the loop at the first error
AddPackage ==
    /\ gb.next <= Len(gb.roots) /\ gb.err = "none"
    /\ LET r == build_from_val(gb.objs, gb.roots[gb.next],
                               [by_obj |-> gb.by_obj, by_hash |-> gb.by_hash,
                                visiting |-> {}]) IN
       gb' = [gb EXCEPT !.by_obj = r.by_obj, !.by_hash = r.by_hash, !.err = r.err,
                        !.out = IF r.err = "none" THEN Append(@, r.pkg) ELSE @,
                        !.next = @ + 1]
    /\ UNCHANGED <<inputVars, seed, ts, cleanLeft, storeVars, workerVars, gc, hist, obs>>

---------------------------------------------------------------------------
(* Pure helpers. *)

Touched(f) == [f EXCEPT !.old = FALSE]
NoFile   == [c |-> "none", old |-> FALSE, by |-> ""]
NoMirror == [torrent |-> FALSE, payload |-> FALSE, old |-> FALSE]

RECURSIVE collect_closure_pre(_, _), collect_all_pre(_, _)
\* a closure that emits a package before its dependencies (preorder)
collect_closure_pre(pkg, st) ==
    IF pkg \in st.visited THEN st
    ELSE LET s1 == [visited |-> st.visited \cup {pkg}, order |-> Append(st.order, pkg)]
             s2 == collect_all_pre(deps[pkg].run, s1)
         IN  collect_all_pre(deps[pkg].build, s2)
collect_all_pre(list, st) ==
    IF list = <<>> THEN st
    ELSE collect_all_pre(Tail(list), collect_closure_pre(Head(list), st))

RECURSIVE collect_closure(_, _), collect_all(_, _)
\* store.rs:1513  collect_closure(pkg, visited, order): DFS over run_deps then
\* build_deps, postorder, visited keyed by hash
collect_closure(pkg, st) ==
    IF pkg \in st.visited THEN st
    ELSE LET s1 == [st EXCEPT !.visited = @ \cup {pkg}]
             s2 == collect_all(deps[pkg].run, s1)
             s3 == collect_all(deps[pkg].build, s2)
         IN  [s3 EXCEPT !.order = Append(@, pkg)]
\* the `for dep in ...` loops of collect_closure, and build_packages' loop over roots
collect_all(list, st) ==
    IF list = <<>> THEN st
    ELSE collect_all(Tail(list), collect_closure(Head(list), st))

\* store.rs:109-113  the `order` build_packages computes
BuildOrder(roots) == collect_all(roots, [visited |-> {}, order |-> <<>>]).order

RECURSIVE install_visit_pre(_, _), install_visit_all_pre(_, _)
\* a visit that emits a package before its dependencies (preorder)
install_visit_pre(pkg, st) ==
    IF pkg \in st.seen THEN st
    ELSE install_visit_all_pre(deps[pkg].build \o deps[pkg].run,
                               [seen |-> st.seen \cup {pkg}, order |-> Append(st.order, pkg)])
install_visit_all_pre(list, st) ==
    IF list = <<>> THEN st
    ELSE install_visit_all_pre(Tail(list), install_visit_pre(Head(list), st))

RECURSIVE install_visit(_, _), install_visit_all(_, _)
\* store.rs:348-358  visit of install_dependencies_into_root: `seen` holds hashes,
\* the children are build_deps then run_deps, the package is pushed after them
install_visit(pkg, st) ==
    IF pkg \in st.seen THEN st
    ELSE LET s1 == install_visit_all(deps[pkg].build \o deps[pkg].run,
                                     [st EXCEPT !.seen = @ \cup {pkg}])
         IN  [s1 EXCEPT !.order = Append(@, pkg)]
install_visit_all(list, st) ==
    IF list = <<>> THEN st
    ELSE install_visit_all(Tail(list), install_visit(Head(list), st))

\* store.rs:360-365  the `order` install_dependencies_into_root extracts in
InstallOrder(p) ==
    install_visit_all(deps[p].build \o deps[p].run, [seen |-> {}, order |-> <<>>]).order

\* the rootfs /store without a directory
NoStore == [b \in Bases |-> {}]
RECURSIVE store_queue(_, _, _)
\* store.rs:626-653  the queue loop of populate_build_store: a dependency not seen
\* yet gets the directory <store_dir>/<base> of its own, made anew, into which its
\* artifact is extracted, and its run_deps and build_deps join the queue.
\* An artifact holds what its package's build left in /out: the files of p.
store_queue(queue, seen, dirs) ==
    IF queue = <<>> THEN dirs
    ELSE LET dep == Head(queue) IN
         IF dep \in seen THEN store_queue(Tail(queue), seen, dirs)
         ELSE store_queue(Tail(queue) \o deps[dep].run \o deps[dep].build,
                          seen \cup {dep},
                          [dirs EXCEPT ![package_base_name(dep)] = {dep}])
\* store.rs:619-656  populate_build_store: dirs[b] = the packages whose files
\* <store_dir>/<b>/ holds
populate_build_store(p) == store_queue(deps[p].build, {}, NoStore)

\* the transitive dependencies of p (run_deps and build_deps), p excluded
RECURSIVE Reach(_, _)
Reach(S, n) ==
    IF n = 0 THEN S
    ELSE Reach(S \cup UNION {{deps[q].run[i] : i \in DOMAIN deps[q].run}
                             \cup {deps[q].build[i] : i \in DOMAIN deps[q].build} : q \in S}, n - 1)
DirectDeps(p) == {deps[p].run[i] : i \in DOMAIN deps[p].run}
                 \cup {deps[p].build[i] : i \in DOMAIN deps[p].build}
TransDeps(p) == Reach(DirectDeps(p), Cardinality(Pkgs))

---------------------------------------------------------------------------
(* Lock files: open, flock. *)

OpenFds == {fdP[w] : w \in Workers} \cup {fdF[w] : w \in Workers} \cup {gc.fd}
InoInUse(n) == {fd.ino : fd \in {f \in OpenFds : f.name = n}}
\* the inode a freshly created file gets: one no open descriptor refers to
NewIno(n) == CHOOSE i \in 1..(Cardinality(Procs) + 1) :
                /\ i \notin InoInUse(n)
                /\ \A j \in 1..(i - 1) : j \in InoInUse(n)
\* open(path, O_CREAT): the inode the path names, created if absent
OpenedIno(n) == IF lockIno[n] # 0 THEN lockIno[n] ELSE NewIno(n)
\* a lock that is granted whoever holds it
LockFree_any(n, ino) == TRUE
\* flock(LOCK_EX) can be granted on fd: no other open descriptor holds the inode's lock
LockFree(n, ino) == \A f \in OpenFds : ~(f.name = n /\ f.ino = ino /\ f.locked)

\* store.rs:1456  touch_path on a lock path: a no-op when the path does not exist
TouchLock(n) == IF lockIno[n] # 0 THEN [lockOld EXCEPT ![n] = FALSE] ELSE lockOld

---------------------------------------------------------------------------
(* What the cleanup runs returned, and what else happened around them.     *)
(* obs.log has one record per cleanup call: its result, the sum of the     *)
(* counters of its CleanupStats, whether another process took a step       *)
(* (gap) or time passed (aged) between the previous call's return and this *)
(* call, and whether another process took a step during this call.         *)

NoObs == [gap |-> FALSE, aged |-> FALSE, log |-> <<>>]

\* a step of a process other than cleanup
Disturbed ==
    IF gc.pc # "idle" THEN [obs EXCEPT !.log[Len(obs.log)].during = TRUE]
    ELSE IF obs.log # <<>> /\ cleanLeft > 0 THEN [obs EXCEPT !.gap = TRUE]
    ELSE obs

\* cleanup is called
ObsStart ==
    [obs EXCEPT !.gap = FALSE, !.aged = FALSE,
                !.log = Append(@, [res |-> "running", removed |-> 0, gap |-> obs.gap,
                                   aged |-> obs.aged, during |-> FALSE, skipped |-> FALSE])]

\* cleanup returns res ("ok": Ok(stats), "err": Err(e)) having removed n entries
ObsEnd(res, n) ==
    [obs EXCEPT !.log[Len(obs.log)] = [@ EXCEPT !.res = res, !.removed = n]]

---------------------------------------------------------------------------
(* build_packages and build_single (store.rs:103-122, 212-284). *)

CurPkg(w)  == order[w][idx[w]]
CurBase(w) == package_base_name(CurPkg(w))
\* store.rs:963  package_artifact_path
package_artifact_path(p) == package_base_name(p) \o ".tar.zst"
ArtifactExists(p) == art[package_base_name(p)] # "none"

SetResult(w, r) == [result EXCEPT ![w][run[w]] = r]
Phase(w) == IF run[w] = 0 THEN "before"
            ELSE IF run[w] = 1 /\ pc[w] # "idle" THEN "call1"
            ELSE IF run[w] = 1 THEN "gap" ELSE "call2"

\* btfetcher.rs:131-140  Drop for TorrentFetcher, run when the store gives up its
\* fetcher (shutdown_torrent_fetcher, or the store itself is dropped): Shutdown
\* is sent and the worker joined, which leaves its loop and stops the session
\* (btfetcher.rs:181-186); the session directory is removed, the lock file closed
Dropped(w) == IF fetcher[w]
              THEN [ts EXCEPT !.sess[w] = NoSess, !.wk[w] = [st |-> "stopped", q |-> <<>>]]
              ELSE ts

\* a build_single that returns Ok with its lock_file still open
BuildReturnOk_keep(w) ==
    LET arts2 == Append(arts[w], package_artifact_path(CurPkg(w))) IN
    /\ fdP' = [fdP EXCEPT ![w].locked = TRUE]
    /\ arts' = [arts EXCEPT ![w] = arts2]
    /\ idx' = [idx EXCEPT ![w] = @ + 1]
    /\ IF idx[w] = Len(order[w])
       THEN /\ pc' = [pc EXCEPT ![w] = "idle"]
            /\ result' = SetResult(w, [ok |-> TRUE, err |-> "", arts |-> arts2])
            /\ fetcher' = [fetcher EXCEPT ![w] = FALSE]
            /\ ts' = Dropped(w)
       ELSE /\ pc' = [pc EXCEPT ![w] = "bs_open"]
            /\ UNCHANGED <<result, fetcher, ts>>
\* build_single returned Ok(artifact_path): lock_file is dropped, the path is pushed,
\* and after the last package build_packages shuts the torrent fetcher down and returns.
BuildReturnOk(w) ==
    LET arts2 == Append(arts[w], package_artifact_path(CurPkg(w))) IN
    /\ fdP' = [fdP EXCEPT ![w] = NoFd]
    /\ arts' = [arts EXCEPT ![w] = arts2]
    /\ idx' = [idx EXCEPT ![w] = @ + 1]
    /\ IF idx[w] = Len(order[w])
       THEN /\ pc' = [pc EXCEPT ![w] = "idle"]
            /\ result' = SetResult(w, [ok |-> TRUE, err |-> "", arts |-> arts2])
            /\ fetcher' = [fetcher EXCEPT ![w] = FALSE]
            /\ ts' = Dropped(w)
       ELSE /\ pc' = [pc EXCEPT ![w] = "bs_open"]
            /\ UNCHANGED <<result, fetcher, ts>>

\* a build_packages that logs the error of build_single and goes on with the
\* next package of the order
BuildReturnErr_continue(w, e) ==
    /\ fdP' = [fdP EXCEPT ![w] = NoFd]
    /\ IF idx[w] = Len(order[w])
       THEN /\ pc' = [pc EXCEPT ![w] = "idle"]
            /\ result' = SetResult(w, [ok |-> FALSE, err |-> e, arts |-> arts[w]])
            /\ UNCHANGED idx
       ELSE /\ pc' = [pc EXCEPT ![w] = "bs_open"]
            /\ idx' = [idx EXCEPT ![w] = @ + 1]
            /\ UNCHANGED result
    /\ UNCHANGED <<arts, fetcher>>
\* build_single returned Err(e): lock_file is dropped and `?` leaves build_packages.
BuildReturnErr(w, e) ==
    /\ fdP' = [fdP EXCEPT ![w] = NoFd]
    /\ pc' = [pc EXCEPT ![w] = "idle"]
    /\ result' = SetResult(w, [ok |-> FALSE, err |-> e, arts |-> arts[w]])
    /\ UNCHANGED <<arts, idx, fetcher>>

\* where build_single goes once fetch number i of the package is due
AfterStagePc(p, i) ==
    IF i <= Len(PkgDef[p].fetch) THEN "cf_open"
    ELSE IF PkgDef[p].build = "untar" THEN "bs_untar" ELSE "bs_spawn"

\* store.rs:103-114  build_packages: compute the order, start the loop
StartBuild(w) ==
    /\ pc[w] = "idle" /\ task[w].op = "build" /\ run[w] < task[w].runs
    /\ obs' = Disturbed
    /\ run' = [run EXCEPT ![w] = @ + 1]
    /\ order' = [order EXCEPT ![w] = BuildOrder(task[w].roots)]
    /\ idx' = [idx EXCEPT ![w] = 1]
    /\ arts' = [arts EXCEPT ![w] = <<>>]
    /\ fetcher' = [fetcher EXCEPT ![w] = FALSE]
    /\ ts' = Dropped(w)
    /\ pc' = [pc EXCEPT ![w] = "bs_open"]
    /\ hist' = [hist EXCEPT !.calls[w] = <<>>, !.retOk[w] = {}]
    /\ UNCHANGED <<inputVars, seed, gb, cleanLeft, storeVars, fdP, fdF, fidx, cf, result, gc>>

\* store.rs:213-216  File::create(<base>.lock): creates or truncates, mtime := now
BsOpen(w) ==
    /\ pc[w] = "bs_open"
    /\ obs' = Disturbed
    /\ LET b == CurBase(w)  ino == OpenedIno(b) IN
        /\ lockIno' = [lockIno EXCEPT ![b] = ino]
        /\ lockOld' = [lockOld EXCEPT ![b] = FALSE]
        /\ fdP' = [fdP EXCEPT ![w] = [name |-> b, ino |-> ino, locked |-> FALSE]]
    /\ pc' = [pc EXCEPT ![w] = "bs_lock"]
    /\ hist' = [hist EXCEPT
                  !.calls[w] = Append(@, CurPkg(w)),
                  !.began[w] = TRUE,
                  !.noArt = @ \cup (IF ArtifactExists(CurPkg(w)) THEN {}
                                     ELSE {<<w, run[w], CurPkg(w)>>}),
                  !.overlap = @ \cup {<< <<w, run[w], CurPkg(w)>>, <<v, run[v], CurPkg(w)>> >> :
                                         v \in {x \in Workers : fdP[x].name = CurBase(w)}}]
    /\ UNCHANGED <<inputVars, sideVars, cleanLeft, art, bdir, ffile, ftmp, mirror,
                   run, order, idx, arts, fdF, fidx, cf, fetcher, result, gc>>

\* an artifact test that never finds the artifact
CacheHit_never(b) == FALSE
\* the artifact test of build_single, store.rs:219
CacheHit(b) == art[b] # "none"

\* store.rs:217-223  lock_exclusive (blocks until granted), then the cache test
BsLock(w) ==
    /\ pc[w] = "bs_lock"
    /\ obs' = Disturbed
    /\ LockFree(fdP[w].name, fdP[w].ino)
    /\ LET b == CurBase(w) IN
       IF CacheHit(b)
       THEN /\ art' = [art EXCEPT ![b] = "fresh"]
            /\ lockOld' = TouchLock(b)
            /\ BuildReturnOk(w)
            /\ hist' = [hist EXCEPT !.retOk[w] = @ \cup {CurPkg(w)},
                                    !.hit = @ \cup {<<w, run[w], CurPkg(w)>>},
                                    !.began[w] = FALSE,
                                    !.safe = @ \cup (IF hist.began[w] THEN {b} ELSE {})]
       ELSE /\ fdP' = [fdP EXCEPT ![w].locked = TRUE]
            /\ pc' = [pc EXCEPT ![w] = "bs_mkdir"]
            /\ UNCHANGED <<art, lockOld, arts, idx, result, fetcher, ts, hist>>
    /\ UNCHANGED <<inputVars, seed, gb, cleanLeft, bdir, lockIno, ffile, ftmp, mirror,
                   run, order, fdF, fidx, cf, gc>>

\* a workspace that keeps what a stale <base>.build held
FreshBuildRoot_keep(old) == [ex |-> TRUE, files |-> old.files]
\* the workspace a build starts from, given what <base>.build held
FreshBuildRoot(old) == [ex |-> TRUE, files |-> {}]
\* store.rs:227-231  remove a stale <base>.build, create it empty
BsMkdir(w) ==
    /\ pc[w] = "bs_mkdir"
    /\ obs' = Disturbed
    /\ LET b == CurBase(w)  p == CurPkg(w) IN
        /\ bdir' = [bdir EXCEPT ![b] = FreshBuildRoot(bdir[b])]
        /\ pc' = [pc EXCEPT ![w] =
                    IF PkgDef[p].build = "untar" THEN AfterStagePc(p, 1) ELSE "bs_install"]
        /\ hist' = [hist EXCEPT !.body = @ \cup {<<w, run[w], p>>},
                                !.stale = @ \cup (IF bdir[b] # NoDir THEN {<<w, run[w], p>>} ELSE {})]
    /\ fidx' = [fidx EXCEPT ![w] = 1]
    /\ UNCHANGED <<inputVars, sideVars, cleanLeft, art, lockIno, lockOld, ffile, ftmp, mirror,
                   run, order, idx, arts, fdP, fdF, cf, fetcher, result, gc>>

\* files of worker w added to <base>.build (created again if it was removed)
Staged(b, w) == [ex |-> TRUE, files |-> bdir[b].files \cup {w}]

\* store.rs:251-273  rootfs: install_dependencies_into_root, populate_build_store;
\* both fail with "missing artifact for dependency" (store.rs:369, 633)
BsInstall(w) ==
    /\ pc[w] = "bs_install"
    /\ obs' = Disturbed
    /\ LET b == CurBase(w)  p == CurPkg(w) IN
       IF \E d \in TransDeps(p) : ~ArtifactExists(d)
       THEN /\ BuildReturnErr(w, "missing artifact")
            /\ hist' = [hist EXCEPT !.bodyFail = @ \cup {<<w, run[w], p>>}]
            /\ UNCHANGED <<bdir>>
       ELSE /\ bdir' = [bdir EXCEPT ![b] = Staged(b, w)]
            /\ pc' = [pc EXCEPT ![w] = AfterStagePc(p, 1)]
            /\ hist' = [hist EXCEPT !.rootfs = @ \cup {[w |-> w, run |-> run[w], pkg |-> p,
                                                        order |-> InstallOrder(p),
                                                        store |-> populate_build_store(p)]}]
            /\ UNCHANGED <<fdP, arts, idx, result, fetcher>>
    /\ UNCHANGED <<inputVars, sideVars, cleanLeft, art, lockIno, lockOld, ffile, ftmp, mirror,
                   run, order, fdF, fidx, cf, gc>>

\* store.rs:278-283 (243-248)  pack_output (rename into place), touch artifact and
\* lock, remove <base>.build, return the path
PackAndReturn(w) ==
    LET b == CurBase(w) IN
    /\ art' = [art EXCEPT ![b] = "fresh"]
    /\ lockOld' = TouchLock(b)
    /\ bdir' = [bdir EXCEPT ![b] = NoDir]
    /\ BuildReturnOk(w)
    /\ hist' = [hist EXCEPT !.retOk[w] = @ \cup {CurPkg(w)},
                            !.built = @ \cup {<<w, run[w], CurPkg(w)>>},
                            !.began[w] = FALSE,
                            !.safe = @ \cup (IF hist.began[w] THEN {b} ELSE {})]

BodyErr(w, e) ==
    /\ BuildReturnErr(w, e)
    /\ hist' = [hist EXCEPT !.bodyFail = @ \cup {<<w, run[w], CurPkg(w)>>}]
    /\ UNCHANGED <<art, lockOld, bdir, ts>>

\* store.rs:233-249  the "untar" build: build_via_untar (store.rs:1148) needs at
\* least one fetch, clears untar-out (creating it if absent) and unpacks the
\* staged files
BsUntar(w) ==
    /\ pc[w] = "bs_untar"
    /\ obs' = Disturbed
    /\ LET b == CurBase(w)  p == CurPkg(w) IN
       IF PkgDef[p].fetch = <<>> THEN BodyErr(w, "untar needs a fetch")
       ELSE IF w \notin bdir[b].files
       THEN /\ BuildReturnErr(w, "io")
            /\ bdir' = [bdir EXCEPT ![b] = [@ EXCEPT !.ex = TRUE]]
            /\ hist' = [hist EXCEPT !.bodyFail = @ \cup {<<w, run[w], p>>}]
            /\ UNCHANGED <<art, lockOld, ts>>
       ELSE PackAndReturn(w)
    /\ UNCHANGED <<inputVars, seed, gb, cleanLeft, lockIno, ffile, ftmp, mirror,
                   run, order, fdF, fidx, cf, gc>>

\* store.rs:1056-1124  run_bwrap_build up to cmd.status(): an empty script runs
\* nothing; otherwise the script is staged in <base>.build and bwrap is spawned
BsSpawn(w) ==
    /\ pc[w] = "bs_spawn"
    /\ obs' = Disturbed
    /\ LET b == CurBase(w)  p == CurPkg(w) IN
       IF PkgDef[p].build = "" THEN PackAndReturn(w)
       ELSE IF bdir[b] = NoDir THEN BodyErr(w, "io")
       ELSE /\ pc' = [pc EXCEPT ![w] = "bs_wait"]
            /\ hist' = [hist EXCEPT !.sandbox = @ \cup {<<w, run[w], p>>}]
            /\ UNCHANGED <<art, lockOld, bdir, fdP, arts, idx, result, fetcher, ts>>
    /\ UNCHANGED <<inputVars, seed, gb, cleanLeft, lockIno, ffile, ftmp, mirror,
                   run, order, fdF, fidx, cf, gc>>

\* bwrap's exit statuses
ExitStatuses == {0, 1}
\* the error run_bwrap_build makes of exit status st (store.rs:1137-1143)
CommandFailure(st) == <<"CommandFailure", st>>
\* what build_single does with the executor's exit status
SandboxFailed(st) == st # 0

\* store.rs:1124-1146 and 276-283  the executor exits with status st
BsExit(w, st) ==
    /\ pc[w] = "bs_wait"
    /\ obs' = Disturbed
    /\ IF SandboxFailed(st) THEN BodyErr(w, CommandFailure(st)) ELSE PackAndReturn(w)
    /\ UNCHANGED <<inputVars, seed, gb, cleanLeft, lockIno, ffile, ftmp, mirror,
                   run, order, fdF, fidx, cf, gc>>

---------------------------------------------------------------------------
(* The fetch cache: cache_fetch, cache_fetch_locked, fetch_url and the     *)
(* torrent mirror (store.rs:673-961).                                      *)

InfoHashes == {"ih_m", "ih_c"}

CurFetch(w) == PkgDef[CurPkg(w)].fetch[fidx[w]]
CurSha(w)   == CurFetch(w).sha256

\* store.rs:1323  is_torrent_url
is_torrent_url(url) == url \in {"magnet", "badmagnet", "dottorrent"}

\* store.rs:1006  info_hash_from_url: Some(hash) for a magnet link, None for any
\* other URL, an error for a magnet link that does not parse or names no
\* supported info hash
info_hash_from_url(url) ==
    IF url = "magnet" THEN "ih_m" ELSE IF url = "badmagnet" THEN "err" ELSE "none"

\* store.rs:1375  verify_sha256 of a file whose content is c
verify_sha256(c) == c = "good"

\* store.rs:707-717  prioritized_urls: torrent-like URLs first, given order kept
prioritized_urls(urls) ==
    SelectSeq(urls, is_torrent_url) \o SelectSeq(urls, LAMBDA u : ~is_torrent_url(u))

\* what a transport can do with one URL: fail before any byte is written ("early"),
\* fail while streaming ("late"), or deliver bytes with the right or a wrong digest;
\* a torrent can also fail to be added to the session ("addfail") and fail in
\* finalize_download once it is complete ("final")
Outcomes(url) ==
    IF url = "badmagnet" THEN {"addfail"}
    ELSE IF is_torrent_url(url) THEN {"late", "final", "good", "bad"}
    ELSE {"early", "late", "good", "bad"}

\* store.rs:938-961  write_torrent_artifacts: resource.torrent and the payload copy
write_torrent_artifacts(m, ih) ==
    [m EXCEPT ![ih] = [torrent |-> TRUE, payload |-> TRUE, old |-> FALSE]]

\* store.rs:785-814  touch_torrent_dir_path: TRUE iff the directory holds resource.torrent
TorrentDirUsable(m, ih) == m[ih].torrent

RECURSIVE FirstUsable(_, _)
\* store.rs:768-775  the first URL whose info hash names a usable mirror directory
FirstUsable(m, urls) ==
    IF urls = <<>> THEN "none"
    ELSE LET ih == info_hash_from_url(Head(urls)) IN
         IF ih \in InfoHashes /\ TorrentDirUsable(m, ih) THEN ih
         ELSE FirstUsable(m, Tail(urls))

RECURSIVE refresh_fails(_, _)
\* store.rs:768-769  `info_hash_from_url(url)?` in the loop of
\* refresh_torrent_artifacts: the error of a URL met before a usable mirror
\* directory ends the refresh
refresh_fails(m, urls) ==
    IF urls = <<>> THEN FALSE
    ELSE LET ih == info_hash_from_url(Head(urls)) IN
         IF ih = "err" THEN TRUE
         ELSE IF ih \in InfoHashes /\ TorrentDirUsable(m, ih) THEN FALSE
         ELSE refresh_fails(m, Tail(urls))

\* refresh_torrent_artifacts creates no torrent for a resource without URLs (store.rs:777)
SkipsMirror(urls) == urls = <<>>

\* store.rs:767-783  refresh_torrent_artifacts, as the mirror it leaves
refresh_torrent_artifacts(m, urls) ==
    LET ih == FirstUsable(m, urls) IN
    IF ih # "none" THEN write_torrent_artifacts(m, ih)
    ELSE IF SkipsMirror(urls) THEN m
    ELSE write_torrent_artifacts(m, "ih_c")

\* cache_fetch returns (store.rs:681-686): touch the lock, drop it, hand `result`
\* to the caller: prepare_fetches (store.rs:664-669) copies the file into the build
\* workspace (an error if the workspace is gone), fetch_packages (store.rs:171-173)
\* goes on; an error leaves either.
CfExit(w, ok, e, h) ==
    LET p == CurPkg(w)  b == CurBase(w)
        last == fidx[w] = Len(PkgDef[p].fetch)
        h2 == [h EXCEPT !.cfRet[w] = [ok |-> ok, err |-> e, n |-> @.n + 1],
                        !.good[w] = FALSE] IN
    /\ fdF' = [fdF EXCEPT ![w] = NoFd]
    /\ lockOld' = TouchLock(CurSha(w))
    /\ IF task[w].op = "build"
       THEN IF ok /\ bdir[b].ex
            THEN /\ bdir' = [bdir EXCEPT ![b] = Staged(b, w)]
                 /\ fidx' = [fidx EXCEPT ![w] = @ + 1]
                 /\ pc' = [pc EXCEPT ![w] = AfterStagePc(p, fidx[w] + 1)]
                 /\ hist' = h2
                 /\ UNCHANGED <<fdP, arts, idx, result, fetcher>>
            ELSE /\ BuildReturnErr(w, IF ok THEN "io" ELSE e)
                 /\ hist' = [h2 EXCEPT !.bodyFail = @ \cup {<<w, run[w], p>>}]
                 /\ UNCHANGED <<bdir, fidx>>
       ELSE IF ok
            THEN /\ fidx' = [fidx EXCEPT ![w] = IF last THEN 1 ELSE @ + 1]
                 /\ idx' = [idx EXCEPT ![w] = IF last THEN @ + 1 ELSE @]
                 /\ pc' = [pc EXCEPT ![w] = IF last THEN "fp_loop" ELSE "cf_open"]
                 /\ hist' = h2
                 /\ UNCHANGED <<bdir, fdP, arts, result, fetcher>>
            ELSE /\ pc' = [pc EXCEPT ![w] = "idle"]
                 /\ result' = SetResult(w, [ok |-> FALSE, err |-> e, arts |-> <<>>])
                 /\ hist' = h2
                 /\ UNCHANGED <<bdir, fidx, idx, fdP, arts, fetcher>>

\* the URL loop of cache_fetch_locked goes to the next URL, or ends with last_err
\* (store.rs:721, 763)
CfNextUrl(w, e, h) ==
    IF cf[w].ui < Len(cf[w].urls)
    THEN /\ cf' = [cf EXCEPT ![w].ui = @ + 1, ![w].last_err = e, ![w].tinfo = "none"]
         /\ pc' = [pc EXCEPT ![w] = "cf_fetch"]
         /\ hist' = h
         /\ UNCHANGED <<fdF, lockOld, bdir, fidx, idx, fdP, arts, result, fetcher>>
    ELSE /\ CfExit(w, FALSE, e, h)
         /\ UNCHANGED cf

\* store.rs:674-678  File::create(<sha>.lock)
CfOpen(w) ==
    /\ pc[w] = "cf_open"
    /\ obs' = Disturbed
    /\ LET s == CurSha(w)  ino == OpenedIno(s) IN
        /\ lockIno' = [lockIno EXCEPT ![s] = ino]
        /\ lockOld' = [lockOld EXCEPT ![s] = FALSE]
        /\ fdF' = [fdF EXCEPT ![w] = [name |-> s, ino |-> ino, locked |-> FALSE]]
    /\ pc' = [pc EXCEPT ![w] = "cf_lock"]
    /\ UNCHANGED <<inputVars, sideVars, cleanLeft, art, bdir, ffile, ftmp, mirror,
                   run, order, idx, arts, fdP, fidx, cf, fetcher, result, gc, hist>>

cache_fetch_head_urls_first(c, urls) ==
    IF urls = <<>> THEN "no_urls"
    ELSE IF c # "none" /\ verify_sha256(c) THEN "hit" ELSE "miss"
\* store.rs:689-702  the head of cache_fetch_locked on a destination of content c:
\* the cached file is looked at before the URL list is
cache_fetch_head(c, urls) ==
    IF c # "none" /\ verify_sha256(c) THEN "hit"
    ELSE IF urls = <<>> THEN "no_urls" ELSE "miss"

\* store.rs:679, 689-719  lock_exclusive, then the head of cache_fetch_locked:
\* a verified cached file is touched, its mirror refreshed, and returned; a
\* mismatching one is deleted; without URLs the call fails
CfLock(w) ==
    /\ pc[w] = "cf_lock"
    /\ obs' = Disturbed
    /\ LockFree(fdF[w].name, fdF[w].ino)
    /\ LET s == CurSha(w)  f == CurFetch(w)
           head == cache_fetch_head(ffile[s].c, f.urls) IN
       IF head = "hit"
       THEN /\ ffile' = [ffile EXCEPT ![s] = Touched(@)]
            /\ IF refresh_fails(mirror, f.urls)
               THEN /\ UNCHANGED mirror
                    /\ CfExit(w, FALSE, "magnet link", hist)
               ELSE /\ mirror' = refresh_torrent_artifacts(mirror, f.urls)
                    /\ CfExit(w, TRUE, "", [hist EXCEPT !.cfHit = @ \cup {<<w, run[w]>>}])
            /\ UNCHANGED cf
       ELSE /\ ffile' = [ffile EXCEPT ![s] = NoFile]
            /\ UNCHANGED mirror
            /\ IF head = "no_urls"
               THEN /\ CfExit(w, FALSE, "no URLs provided", hist)
                    /\ UNCHANGED cf
               ELSE /\ fdF' = [fdF EXCEPT ![w].locked = TRUE]
                    /\ cf' = [cf EXCEPT ![w] = [urls |-> prioritized_urls(f.urls), ui |-> 1,
                                                last_err |-> "none", tinfo |-> "none"]]
                    /\ pc' = [pc EXCEPT ![w] = "cf_fetch"]
                    /\ hist' = [hist EXCEPT !.good[w] = FALSE]
                    /\ UNCHANGED <<lockOld, bdir, fidx, idx, fdP, arts, result, fetcher>>
    /\ UNCHANGED <<inputVars, sideVars, cleanLeft, art, lockIno, ftmp, run, order, gc>>

CurUrl(w) == cf[w].urls[cf[w].ui]

torrent_fetcher_new(have) == TRUE
\* store.rs:180-193  torrent_fetcher(): a TorrentFetcher is made only if the store
\* holds none
torrent_fetcher(have) == ~have

\* store.rs:822-831 and 850, 1352-1373  fetch_url before the transfer.  A torrent
\* URL asks for the store's fetcher: if there is none TorrentFetcher::new starts,
\* allocating a session directory and creating the lock file in it
\* (btfetcher.rs:55-64); with a fetcher <sha>.tmp is removed and download() puts
\* the Download command on the worker's queue and waits for the reply
\* (btfetcher.rs:111-123).  Any other URL replaces <sha>.tmp by a new empty file
\* the process holds open.
CfFetch(w) ==
    /\ pc[w] = "cf_fetch"
    /\ obs' = Disturbed
    /\ LET s == CurSha(w) IN
       IF is_torrent_url(CurUrl(w))
       THEN IF torrent_fetcher(fetcher[w])
            THEN /\ ts' = [ts EXCEPT !.ctr[w] = @ + 1,
                                     !.sess[w] = [NoSess EXCEPT !.dir = TRUE, !.lockf = TRUE,
                                                                !.id = ts.ctr[w] + 1]]
                 /\ pc' = [pc EXCEPT ![w] = "tf_lock"]
                 /\ UNCHANGED <<fetcher, ftmp>>
            ELSE /\ ftmp' = [ftmp EXCEPT ![s] = NoFile]
                 /\ ts' = [ts EXCEPT !.wk[w].q = Append(@, "Download")]
                 /\ pc' = [pc EXCEPT ![w] = "cf_stream"]
                 /\ UNCHANGED fetcher
       ELSE /\ ftmp' = [ftmp EXCEPT ![s] = [c |-> "bad", old |-> FALSE, by |-> w]]
            /\ pc' = [pc EXCEPT ![w] = "cf_stream"]
            /\ UNCHANGED <<fetcher, ts>>
    /\ UNCHANGED <<inputVars, seed, gb, cleanLeft, art, bdir, lockIno, lockOld, ffile, mirror,
                   run, order, idx, arts, fdP, fdF, fidx, cf, result, gc, hist>>

\* btfetcher.rs:65-93  the rest of TorrentFetcher::new: lock_exclusive on the lock
\* file blocks until granted, create_dir_all(<session>/downloads) (making the
\* session directory again if it is gone), the worker starts and is idle; then
\* fetch_url goes on as above (store.rs:824-839) and posts its Download
TfLock(w) ==
    /\ pc[w] = "tf_lock"
    /\ obs' = Disturbed
    /\ ts.sess[w].held = "none"
    /\ ts' = [ts EXCEPT !.sess[w] = [@ EXCEPT !.held = "own", !.dir = TRUE, !.old = FALSE],
                        !.wk[w] = [st |-> "idle", q |-> <<"Download">>]]
    /\ fetcher' = [fetcher EXCEPT ![w] = TRUE]
    /\ ftmp' = [ftmp EXCEPT ![CurSha(w)] = NoFile]
    /\ pc' = [pc EXCEPT ![w] = "cf_stream"]
    /\ UNCHANGED <<inputVars, seed, gb, cleanLeft, art, bdir, lockIno, lockOld, ffile, mirror,
                   run, order, idx, arts, fdP, fdF, fidx, cf, result, gc, hist>>

\* a worker that takes a Download off the queue and forgets it
WkRecv_lose(w) ==
    /\ ts.wk[w].st = "idle" /\ ts.wk[w].q # <<>>
    /\ obs' = Disturbed
    /\ ts' = [ts EXCEPT !.wk[w].q = Tail(@)]
    /\ UNCHANGED <<inputVars, seed, gb, cleanLeft, storeVars, workerVars, gc, hist>>
\* btfetcher.rs:170-177, 190-197  run_worker: the idle worker receives the next
\* command of the queue; for a Download it counts and handle_download begins,
\* creating the work dir <session>/downloads/<sha>.torrent-work-<ctr>/ (and the
\* directories above it).  A Shutdown is only ever sent by Drop, which waits
\* for the worker to end (see Dropped).
WkRecv(w) ==
    /\ ts.wk[w].st = "idle" /\ ts.wk[w].q # <<>>
    /\ obs' = Disturbed
    /\ ts' = [ts EXCEPT !.wk[w] = [st |-> "busy", q |-> Tail(@.q)],
                        !.sess[w] = [@ EXCEPT !.dir = TRUE, !.wd = "fresh",
                                              !.old = ts.sess[w].dir /\ ts.sess[w].old]]
    /\ UNCHANGED <<inputVars, seed, gb, cleanLeft, storeVars, workerVars, gc, hist>>

\* store.rs:839-847 and 851-889  the transfer ends with outcome out.  The bytes go
\* to the file the process opened, whatever path names it by now.  A torrent
\* request ends when the worker's handle_download does (btfetcher.rs:199-236):
\* the worker sends the one reply (btfetcher.rs:178), is idle again, and
\* download() returns it to fetch_url (btfetcher.rs:120-128).  A failure of
\* wait_until_completed and a success remove the work dir, a failure of
\* add_torrent_to_session or of finalize_download returns through `?`; without
\* the work dir there is no payload for finalize_download to copy.
CfStream(w, out) ==
    /\ pc[w] = "cf_stream"
    /\ obs' = Disturbed
    /\ out \in Outcomes(CurUrl(w))
    /\ LET s == CurSha(w)  torrent == is_torrent_url(CurUrl(w))
           done == [c |-> out, old |-> FALSE, by |-> ""]
           h == IF torrent THEN [hist EXCEPT !.dl = @ \cup {<<w, run[w], ts.sess[w].id>>}]
                ELSE hist IN
       /\ torrent => ts.wk[w].st = "busy"
       /\ (torrent /\ out \in {"good", "bad"}) => ts.sess[w].wd # "none"
       /\ ts' = IF torrent
                THEN [ts EXCEPT !.wk[w].st = "idle",
                                !.sess[w].wd = IF out \in {"late", "good", "bad"}
                                               THEN "none" ELSE @]
                ELSE ts
       /\ CASE out \in {"early", "addfail", "final"} ->
               /\ CfNextUrl(w, "transport", h)
               /\ UNCHANGED <<ffile, ftmp>>
         [] out = "late" ->
               /\ ftmp' = IF torrent THEN ftmp ELSE [ftmp EXCEPT ![s] = NoFile]
               /\ CfNextUrl(w, "transport", h)
               /\ UNCHANGED ffile
         [] OTHER ->
               /\ IF torrent THEN ftmp' = [ftmp EXCEPT ![s] = done] /\ UNCHANGED ffile
                  ELSE IF ftmp[s].by = w THEN ftmp' = [ftmp EXCEPT ![s] = done] /\ UNCHANGED ffile
                  ELSE IF ffile[s].by = w THEN ffile' = [ffile EXCEPT ![s] = done] /\ UNCHANGED ftmp
                  ELSE UNCHANGED <<ffile, ftmp>>
               /\ cf' = [cf EXCEPT ![w].tinfo = IF torrent THEN "ih_m" ELSE "none"]
               /\ pc' = [pc EXCEPT ![w] = "cf_verify"]
               /\ hist' = [h EXCEPT !.good[w] = verify_sha256(out)]
               /\ UNCHANGED <<fdF, lockOld, bdir, fidx, idx, fdP, arts, result, fetcher>>
    /\ UNCHANGED <<inputVars, seed, gb, cleanLeft, art, lockIno, mirror, run, order, gc>>

\* store.rs:727-739  verify the temp file; a mismatch deletes it and tries the next URL
CfVerify(w) ==
    /\ pc[w] = "cf_verify"
    /\ obs' = Disturbed
    /\ LET s == CurSha(w) IN
       IF ftmp[s].c = "none"
       THEN /\ CfExit(w, FALSE, "io", hist)
            /\ UNCHANGED <<cf, ftmp>>
       ELSE IF verify_sha256(ftmp[s].c)
       THEN /\ pc' = [pc EXCEPT ![w] = "cf_rename"]
            /\ UNCHANGED <<cf, ftmp, fdF, lockOld, bdir, fidx, idx, fdP, arts, result,
                           fetcher, hist>>
       ELSE /\ ftmp' = [ftmp EXCEPT ![s] = NoFile]
            /\ CfNextUrl(w, "SHA mismatch", hist)
    /\ UNCHANGED <<inputVars, sideVars, cleanLeft, art, lockIno, ffile, mirror, run, order, gc>>

\* store.rs:741-748  remove an existing dest, rename the temp file into place, touch
CfRename(w) ==
    /\ pc[w] = "cf_rename"
    /\ obs' = Disturbed
    /\ LET s == CurSha(w) IN
       IF ftmp[s].c = "none"
       THEN /\ ffile' = [ffile EXCEPT ![s] = NoFile]
            /\ CfExit(w, FALSE, "io", hist)
            /\ UNCHANGED ftmp
       ELSE /\ ffile' = [ffile EXCEPT ![s] = Touched(ftmp[s])]
            /\ ftmp' = [ftmp EXCEPT ![s] = NoFile]
            /\ pc' = [pc EXCEPT ![w] = "cf_mirror"]
            /\ hist' = [hist EXCEPT !.renamed = @ \cup {ftmp[s].c}]
            /\ UNCHANGED <<fdF, lockOld, bdir, fidx, idx, fdP, arts, result, fetcher>>
    /\ UNCHANGED <<inputVars, sideVars, cleanLeft, art, lockIno, mirror, run, order, cf, gc>>

\* store.rs:750-755  the torrent the download brought, or one created from the
\* final file; write the mirror entry; return the final path
CfMirror(w) ==
    /\ pc[w] = "cf_mirror"
    /\ obs' = Disturbed
    /\ LET s == CurSha(w)
           ih == IF cf[w].tinfo # "none" THEN cf[w].tinfo ELSE "ih_c" IN
       IF ffile[s].c = "none"
       THEN /\ CfExit(w, FALSE, "io", hist)
            /\ UNCHANGED mirror
       ELSE /\ mirror' = write_torrent_artifacts(mirror, ih)
            /\ CfExit(w, TRUE, "", [hist EXCEPT !.cfGot = @ \cup {<<w, run[w]>>}])
    /\ UNCHANGED <<inputVars, sideVars, cleanLeft, art, lockIno, ffile, ftmp, run, order, cf, gc>>

---------------------------------------------------------------------------
(* fetch_packages (store.rs:141-178). *)

RECURSIVE FetchQueue(_, _, _)
\* the order in which fetch_packages' queue yields packages not yet visited
FetchQueue(queue, visited, out) ==
    IF queue = <<>> THEN out
    ELSE LET p == Head(queue) IN
         IF p \in visited THEN FetchQueue(Tail(queue), visited, out)
         ELSE FetchQueue(Tail(queue) \o deps[p].run \o deps[p].build,
                         visited \cup {p}, Append(out, p))

\* store.rs:141-156
StartFetch(w) ==
    /\ pc[w] = "idle" /\ task[w].op = "fetch" /\ run[w] < task[w].runs
    /\ obs' = Disturbed
    /\ run' = [run EXCEPT ![w] = @ + 1]
    /\ order' = [order EXCEPT ![w] = FetchQueue(task[w].roots, {}, <<>>)]
    /\ idx' = [idx EXCEPT ![w] = 1]
    /\ fidx' = [fidx EXCEPT ![w] = 1]
    /\ arts' = [arts EXCEPT ![w] = <<>>]
    /\ fetcher' = [fetcher EXCEPT ![w] = FALSE]
    /\ ts' = Dropped(w)
    /\ pc' = [pc EXCEPT ![w] = "fp_loop"]
    /\ UNCHANGED <<inputVars, seed, gb, cleanLeft, storeVars, fdP, fdF, cf, result, gc, hist>>

\* store.rs:149-177  one turn of the loop: skip a package that is built
\* (missing_only) or declares no fetch, else start on its fetch list; after the
\* last package shut the torrent fetcher down
FpLoop(w) ==
    /\ pc[w] = "fp_loop"
    /\ obs' = Disturbed
    /\ IF idx[w] > Len(order[w])
       THEN /\ pc' = [pc EXCEPT ![w] = "idle"]
            /\ fetcher' = [fetcher EXCEPT ![w] = FALSE]
            /\ ts' = Dropped(w)
            /\ result' = SetResult(w, [ok |-> TRUE, err |-> "", arts |-> <<>>])
            /\ UNCHANGED idx
       ELSE /\ IF (task[w].missing_only /\ ArtifactExists(CurPkg(w)))
                  \/ PkgDef[CurPkg(w)].fetch = <<>>
               THEN idx' = [idx EXCEPT ![w] = @ + 1] /\ UNCHANGED pc
               ELSE pc' = [pc EXCEPT ![w] = "cf_open"] /\ UNCHANGED idx
            /\ UNCHANGED <<fetcher, result, ts>>
    /\ UNCHANGED <<inputVars, seed, gb, cleanLeft, storeVars, run, order, arts, fdP, fdF, fidx, cf,
                   gc, hist>>

---------------------------------------------------------------------------
(* cleanup (store.rs:124-139, 286-345, 382-617).  gc.stats is the sum of   *)
(* the counters of the CleanupStats the call is filling.                   *)

GcIdle == [pc |-> "idle", todo |-> {}, cur |-> "none", fd |-> NoFd, rm |-> FALSE,
           snap |-> [s \in Shas |-> [file |-> FALSE, tmp |-> FALSE, wd |-> FALSE]],
           sinfo |-> [k \in SessIds |-> [st |-> "no", id |-> 0]], stats |-> 0]

\* store.rs:1446  is_metadata_expired, on the abstract mtime
Expired(old) == old

\* a cleanup step happens in the present phase of every building worker
GcAt(h) ==
    [h EXCEPT !.gcAt = @ \cup {<<w, Phase(w)>> : w \in {v \in Workers : task[v].op = "build"}}]

\* store.rs:124-128, 292-299  cleanup: now is read; cleanup_packages lists the bases
GcStart ==
    /\ gc.pc = "idle" /\ cleanLeft > 0
    /\ cleanLeft' = cleanLeft - 1
    /\ gc' = [gc EXCEPT !.pc = "cp", !.stats = 0,
                        !.todo = {b \in Bases : art[b] # "none" \/ bdir[b] # NoDir
                                                  \/ lockIno[b] # 0}]
    /\ hist' = [GcAt(hist) EXCEPT !.skip = {}]
    /\ obs' = ObsStart
    /\ UNCHANGED <<inputVars, sideVars, storeVars, workerVars>>

\* every worker's call in progress on lock name n saw a cleanup step
GcSeen(h, n) ==
    [GcAt(h) EXCEPT
              !.gcDuring = @ \cup {<<w, run[w], CurPkg(w)>> :
                                       w \in {v \in Workers : fdP[v].name = n}}]

\* a cleanup that waits for the package lock with lock_exclusive
GcPkgLock_wait(b) ==
    /\ gc.pc = "cp" /\ b \in gc.todo
    /\ LockFree(b, OpenedIno(b))
    /\ lockIno' = [lockIno EXCEPT ![b] = OpenedIno(b)]
    /\ lockOld' = IF lockIno[b] = 0 THEN [lockOld EXCEPT ![b] = FALSE] ELSE lockOld
    /\ gc' = [gc EXCEPT !.todo = @ \ {b}, !.cur = b, !.pc = "cp_sweep",
                        !.fd = [name |-> b, ino |-> OpenedIno(b), locked |-> TRUE]]
    /\ hist' = GcSeen(hist, b)
    /\ UNCHANGED <<inputVars, sideVars, cleanLeft, art, bdir, ffile, ftmp, mirror,
                   workerVars, obs>>
\* store.rs:301-316  one base: open <base>.lock (created if absent) and try-lock it;
\* on WouldBlock the base is skipped
GcPkgLock(b) ==
    /\ gc.pc = "cp" /\ b \in gc.todo
    /\ LET ino == OpenedIno(b) IN
       IF ~LockFree(b, ino)
       THEN /\ gc' = [gc EXCEPT !.todo = @ \ {b}]
            /\ UNCHANGED <<lockIno, lockOld>>
       ELSE /\ lockIno' = [lockIno EXCEPT ![b] = ino]
            /\ lockOld' = IF lockIno[b] = 0 THEN [lockOld EXCEPT ![b] = FALSE] ELSE lockOld
            /\ gc' = [gc EXCEPT !.todo = @ \ {b}, !.cur = b, !.pc = "cp_sweep",
                                !.fd = [name |-> b, ino |-> ino, locked |-> TRUE]]
    /\ hist' = GcSeen(hist, b)
    /\ UNCHANGED <<inputVars, sideVars, cleanLeft, art, bdir, ffile, ftmp, mirror,
                   workerVars, obs>>

PkgLockRemovable_pre(b, artLeft) == art[b] = "none" /\ lockIno[b] # 0 /\ Expired(lockOld[b])
\* store.rs:329-334  the lock file goes when nothing of the base is left and the
\* lock file itself is expired
PkgLockRemovable(b, artLeft) == artLeft = "none" /\ lockIno[b] # 0 /\ Expired(lockOld[b])

\* cleanup returns Err(e): `?` leaves the category loop and cleanup itself
\* (store.rs:127-128, 132); every open lock file is dropped
GcAbort(n) ==
    /\ gc' = GcIdle
    /\ obs' = ObsEnd("err", n)

\* store.rs:318-336  under the lock: remove the expired artifact and any build dir,
\* decide whether the lock file goes, drop the lock.  Where the host refuses to
\* remove the build dir (env.rmFails), remove_dir_all returns an error.
GcPkgSweep ==
    /\ gc.pc = "cp_sweep"
    /\ LET b == gc.cur
           artLeft == IF art[b] = "old" THEN "none" ELSE art[b]
           n1 == gc.stats + (IF art[b] = "old" THEN 1 ELSE 0)
           rm == PkgLockRemovable(b, artLeft) IN
        /\ art' = [art EXCEPT ![b] = artLeft]
        /\ IF bdir[b].ex /\ env.rmFails
           THEN /\ GcAbort(n1)
                /\ UNCHANGED bdir
           ELSE /\ bdir' = [bdir EXCEPT ![b] = NoDir]
                /\ gc' = [gc EXCEPT !.fd = NoFd, !.rm = rm, !.cur = IF rm THEN b ELSE "none",
                                    !.pc = IF rm THEN "cp_unlink" ELSE "cp",
                                    !.stats = n1 + (IF bdir[b].ex THEN 1 ELSE 0)]
                /\ UNCHANGED obs
        /\ hist' = GcSeen(hist, b)
    /\ UNCHANGED <<inputVars, sideVars, cleanLeft, lockIno, lockOld, ffile, ftmp, mirror,
                   workerVars>>

\* store.rs:338-341  remove the lock file if it is (still) there
GcPkgUnlink ==
    /\ gc.pc = "cp_unlink"
    /\ lockIno' = [lockIno EXCEPT ![gc.cur] = 0]
    /\ gc' = [gc EXCEPT !.pc = "cp", !.cur = "none", !.rm = FALSE,
                        !.stats = @ + (IF lockIno[gc.cur] # 0 THEN 1 ELSE 0)]
    /\ hist' = GcSeen(hist, gc.cur)
    /\ UNCHANGED <<inputVars, sideVars, cleanLeft, art, bdir, lockOld, ffile, ftmp, mirror,
                   workerVars, obs>>

active_session_present_never(sinfo) == FALSE
\* store.rs:401, 425-433  active_session_present: the lock of some session
\* directory's lock file was contested when the directory was listed
active_session_present(sinfo) == \E k \in DOMAIN sinfo : sinfo[k].st = "active"

\* store.rs:404-479  cleanup_fetches lists <fetch_root>: files, partials and work
\* dirs go into groups by sha; of every session directory the lock file, if it is
\* there, is opened and try-locked: granted, cleanup keeps the lock and the
\* session counts as dead; contested, the session is active
GcFetchScan ==
    /\ gc.pc = "cp" /\ gc.todo = {}
    /\ LET Free(k) == ts.sess[k].dir /\ ts.sess[k].lockf /\ ts.sess[k].held = "none" IN
        /\ gc' = [gc EXCEPT !.pc = "cf",
                    !.todo = {s \in Shas : ffile[s].c # "none" \/ ftmp[s].c # "none"
                                             \/ lockIno[s] # 0 \/ ts.top[s] # "none"},
                    !.snap = [s \in Shas |-> [file |-> ffile[s].c # "none",
                                              tmp  |-> ftmp[s].c # "none",
                                              wd   |-> ts.top[s] # "none"]],
                    !.sinfo = [k \in SessIds |->
                                  IF ~ts.sess[k].dir THEN [st |-> "no", id |-> 0]
                                  ELSE [st |-> IF ts.sess[k].lockf /\ ~Free(k)
                                               THEN "active" ELSE "dead",
                                        id |-> ts.sess[k].id]]]
        /\ ts' = [ts EXCEPT !.sess = [k \in SessIds |->
                                         IF Free(k) THEN [ts.sess[k] EXCEPT !.held = "gc"]
                                         ELSE ts.sess[k]]]
    /\ hist' = GcAt(hist)
    /\ UNCHANGED <<inputVars, seed, gb, cleanLeft, storeVars, workerVars, obs>>

\* store.rs:481-494  one group: open <sha>.lock (created if absent) and try-lock
\* it; on WouldBlock the group is skipped
GcFetchLock(s) ==
    /\ gc.pc = "cf" /\ s \in gc.todo
    /\ LET ino == OpenedIno(s) IN
       IF ~LockFree(s, ino)
       THEN /\ gc' = [gc EXCEPT !.todo = @ \ {s}]
            /\ UNCHANGED <<lockIno, lockOld>>
       ELSE /\ lockIno' = [lockIno EXCEPT ![s] = ino]
            /\ lockOld' = IF lockIno[s] = 0 THEN [lockOld EXCEPT ![s] = FALSE] ELSE lockOld
            /\ gc' = [gc EXCEPT !.todo = @ \ {s}, !.cur = s, !.pc = "cf_sweep",
                                !.fd = [name |-> s, ino |-> ino, locked |-> TRUE]]
    /\ hist' = IF ~LockFree(s, OpenedIno(s)) THEN [GcAt(hist) EXCEPT !.skip = @ \cup {s}]
               ELSE GcAt(hist)
    /\ UNCHANGED <<inputVars, sideVars, cleanLeft, art, bdir, ffile, ftmp, mirror,
                   workerVars, obs>>

\* store.rs:496-542  under the lock: remove the expired final file, the expired
\* partials and, unless a session is active, the expired work dirs that were
\* listed; decide whether the lock file goes; drop the lock
GcFetchSweep ==
    /\ gc.pc = "cf_sweep"
    /\ LET s == gc.cur
           rmFile == gc.snap[s].file /\ ffile[s].c # "none" /\ Expired(ffile[s].old)
           file_exists == gc.snap[s].file /\ ffile[s].c # "none" /\ ~rmFile
           rmTmp == gc.snap[s].tmp /\ ftmp[s].c # "none" /\ Expired(ftmp[s].old)
           rmWd == /\ gc.snap[s].wd /\ ~active_session_present(gc.sinfo)
                   /\ Expired(ts.top[s] = "old")
           partials_remaining ==
               \/ gc.snap[s].tmp /\ ftmp[s].c # "none" /\ ~rmTmp
               \/ gc.snap[s].wd /\ ts.top[s] # "none" /\ ~rmWd
           rm == /\ ~file_exists /\ ~partials_remaining
                 /\ lockIno[s] # 0 /\ Expired(lockOld[s]) IN
        /\ ffile' = IF rmFile THEN [ffile EXCEPT ![s] = NoFile] ELSE ffile
        /\ ftmp' = IF rmTmp THEN [ftmp EXCEPT ![s] = NoFile] ELSE ftmp
        /\ ts' = IF rmWd THEN [ts EXCEPT !.top[s] = "none"] ELSE ts
        /\ gc' = [gc EXCEPT !.fd = NoFd, !.rm = rm, !.cur = IF rm THEN s ELSE "none",
                            !.pc = IF rm THEN "cf_unlink" ELSE "cf",
                            !.stats = @ + (IF rmFile THEN 1 ELSE 0) + (IF rmTmp THEN 1 ELSE 0)
                                        + (IF rmWd THEN 2 ELSE 0)]
    /\ hist' = GcAt(hist)
    /\ UNCHANGED <<inputVars, seed, gb, cleanLeft, art, bdir, lockIno, lockOld, mirror,
                   workerVars, obs>>

\* store.rs:543-546
GcFetchUnlink ==
    /\ gc.pc = "cf_unlink"
    /\ lockIno' = [lockIno EXCEPT ![gc.cur] = 0]
    /\ gc' = [gc EXCEPT !.pc = "cf", !.cur = "none", !.rm = FALSE,
                        !.stats = @ + (IF lockIno[gc.cur] # 0 THEN 1 ELSE 0)]
    /\ hist' = GcAt(hist)
    /\ UNCHANGED <<inputVars, sideVars, cleanLeft, art, bdir, lockOld, ffile, ftmp, mirror,
                   workerVars, obs>>

\* store.rs:548-557  after the groups: unless a session is active, every work dir
\* that was listed goes if it is expired, whatever became of its group; the
\* sessions that were not active are next
GcOrphans ==
    /\ gc.pc = "cf" /\ gc.todo = {}
    /\ LET gone == {s \in Shas : /\ ~active_session_present(gc.sinfo)
                                 /\ gc.snap[s].wd /\ Expired(ts.top[s] = "old")} IN
        /\ ts' = [ts EXCEPT !.top = [s \in Shas |-> IF s \in gone THEN "none" ELSE ts.top[s]]]
        /\ gc' = [gc EXCEPT !.pc = "cs", !.stats = @ + 2 * Cardinality(gone),
                            !.todo = {k \in DOMAIN gc.sinfo : gc.sinfo[k].st = "dead"}]
    /\ hist' = GcAt(hist)
    /\ UNCHANGED <<inputVars, seed, gb, cleanLeft, storeVars, workerVars, obs>>

\* store.rs:559-584  one session that was not active: the expired directories
\* under <session>/downloads go, then the session's lock is dropped
GcSessSweep(k) ==
    /\ gc.pc = "cs" /\ k \in gc.todo
    /\ LET there == ts.sess[k].dir /\ ts.sess[k].id = gc.sinfo[k].id
           rmWd == there /\ Expired(ts.sess[k].wd = "old") IN
        /\ ts' = [ts EXCEPT !.sess[k] =
                     [@ EXCEPT !.wd = IF rmWd THEN "none" ELSE @,
                               !.held = IF @ = "gc" THEN "none" ELSE @]]
        /\ gc' = [gc EXCEPT !.pc = "cs_rm", !.cur = k, !.todo = @ \ {k},
                            !.stats = @ + (IF rmWd THEN 2 ELSE 0)]
    /\ hist' = GcAt(hist)
    /\ UNCHANGED <<inputVars, seed, gb, cleanLeft, storeVars, workerVars, obs>>

\* store.rs:586-588  the session directory goes, with all it holds, if it is expired
GcSessRemove ==
    /\ gc.pc = "cs_rm"
    /\ LET k == gc.cur
           rmDir == /\ ts.sess[k].dir /\ ts.sess[k].id = gc.sinfo[k].id
                    /\ Expired(ts.sess[k].old) IN
        /\ ts' = IF rmDir
                 THEN [ts EXCEPT !.sess[k] = [@ EXCEPT !.dir = FALSE, !.lockf = FALSE,
                                                       !.old = FALSE, !.wd = "none"]]
                 ELSE ts
        /\ gc' = [gc EXCEPT !.pc = "cs", !.cur = "none",
                            !.stats = @ + (IF rmDir THEN 1 ELSE 0)]
    /\ hist' = GcAt(hist)
    /\ UNCHANGED <<inputVars, seed, gb, cleanLeft, storeVars, workerVars, obs>>

\* a seeder lock that is granted whoever holds it
SeedLockFree_any(holder) == TRUE
\* flock on <store>/seed/seeder.lock can be granted: nobody holds it.  The file
\* is never removed, so every process opens the same inode.
SeedLockFree(holder) == holder = "free"

\* store.rs:129-137, btseed.rs:285-294  try_acquire_seed_lock: with the lock,
\* cleanup_torrents is next; without it torrent cleanup is skipped and cleanup
\* returns Ok(stats)
GcSeedLock ==
    /\ gc.pc = "cs" /\ gc.todo = {}
    /\ IF SeedLockFree(seed.lock)
       THEN /\ seed' = [seed EXCEPT !.lock = "gc"]
            /\ gc' = [gc EXCEPT !.pc = "ct"]
            /\ UNCHANGED obs
       ELSE /\ gc' = GcIdle
            /\ obs' = [ObsEnd("ok", gc.stats) EXCEPT !.log[Len(obs.log)].skipped = TRUE]
            /\ UNCHANGED seed
    /\ hist' = GcAt(hist)
    /\ UNCHANGED <<inputVars, gb, ts, cleanLeft, storeVars, workerVars>>

\* store.rs:132-138, 595-617  cleanup_torrents: every expired mirror directory
\* goes; the seeder lock is dropped and cleanup returns Ok(stats)
GcTorrents ==
    /\ gc.pc = "ct"
    /\ LET gone == {i \in InfoHashes : mirror[i].torrent /\ Expired(mirror[i].old)} IN
        /\ mirror' = [i \in InfoHashes |-> IF i \in gone THEN NoMirror ELSE mirror[i]]
        /\ obs' = ObsEnd("ok", gc.stats + Cardinality(gone))
    /\ gc' = GcIdle
    /\ seed' = [seed EXCEPT !.lock = "free"]
    /\ hist' = GcAt(hist)
    /\ UNCHANGED <<inputVars, gb, ts, cleanLeft, art, bdir, lockIno, lockOld, ffile, ftmp,
                   workerVars>>

\* Time passes: what exists now is older than the cutoff of a later cleanup.
TimePasses ==
    /\ gc.pc = "idle" /\ cleanLeft > 0
    /\ art' = [b \in Bases |-> IF art[b] = "fresh" THEN "old" ELSE art[b]]
    /\ lockOld' = [n \in LockNames |-> lockIno[n] # 0]
    /\ ffile' = [s \in Shas |-> IF ffile[s].c # "none" THEN [ffile[s] EXCEPT !.old = TRUE]
                                ELSE ffile[s]]
    /\ ftmp' = [s \in Shas |-> IF ftmp[s].c # "none" THEN [ftmp[s] EXCEPT !.old = TRUE]
                               ELSE ftmp[s]]
    /\ mirror' = [i \in InfoHashes |-> IF mirror[i].torrent THEN [mirror[i] EXCEPT !.old = TRUE]
                                       ELSE mirror[i]]
    /\ ts' = [ts EXCEPT !.sess = [k \in SessIds |->
                                     [ts.sess[k] EXCEPT !.old = ts.sess[k].dir,
                                                        !.wd = IF @ = "fresh" THEN "old" ELSE @]]]
    /\ <<art', lockOld', ffile', ftmp', mirror', ts'>> # <<art, lockOld, ffile, ftmp, mirror, ts>>
    /\ obs' = IF obs.log # <<>> THEN [obs EXCEPT !.aged = TRUE] ELSE obs
    /\ hist' = [hist EXCEPT !.began = [w \in Workers |-> FALSE], !.safe = {}]
    /\ UNCHANGED <<inputVars, seed, gb, cleanLeft, bdir, lockIno, workerVars, gc>>

---------------------------------------------------------------------------
(* The seeder, `magpkg seed` (btseed.rs:76-159), as far as it shares the   *)
(* store with cleanup: the seeder lock and the expired mirror directories  *)
(* it removes itself.                                                      *)

SeedOff == [pc |-> "off", lock |-> "free"]

\* btseed.rs:77, 296-300  acquire_seed_lock: File::create(seeder.lock), then
\* lock_exclusive blocks
SeederStart ==
    /\ env.seeder /\ seed.pc = "off"
    /\ seed' = [seed EXCEPT !.pc = "wait"]
    /\ obs' = Disturbed
    /\ UNCHANGED <<inputVars, gb, ts, cleanLeft, storeVars, workerVars, gc, hist>>

\* btseed.rs:300, 83-90  the lock is granted; the seeding session starts
SeederLock ==
    /\ seed.pc = "wait" /\ SeedLockFree(seed.lock)
    /\ seed' = [pc |-> "session", lock |-> "seeder"]
    /\ obs' = Disturbed
    /\ UNCHANGED <<inputVars, gb, ts, cleanLeft, storeVars, workerVars, gc, hist>>

\* btseed.rs:161-226, 361-387  sync_seeding_iteration: the directories whose
\* resource.torrent is expired are removed, seeded or not
SeederSync ==
    /\ seed.pc = "session"
    /\ \E i \in InfoHashes : mirror[i].torrent /\ Expired(mirror[i].old)
    /\ mirror' = [i \in InfoHashes |->
                    IF mirror[i].torrent /\ Expired(mirror[i].old) THEN NoMirror ELSE mirror[i]]
    /\ obs' = Disturbed
    /\ UNCHANGED <<inputVars, sideVars, cleanLeft, art, bdir, lockIno, lockOld, ffile, ftmp,
                   workerVars, gc, hist>>

\* btseed.rs:135-158, 90-92  interrupt: the torrents are paused, the session is
\* stopped, run_seed_loop returns and the lock is dropped
SeederStop ==
    /\ seed.pc = "session"
    /\ seed' = SeedOff
    /\ obs' = Disturbed
    /\ UNCHANGED <<inputVars, gb, ts, cleanLeft, storeVars, workerVars, gc, hist>>

---------------------------------------------------------------------------
(* Initial states: an empty store (PackageStore::new, store.rs:71-101) and *)
(* the commands the processes are going to run.                            *)

NoDeps == [run |-> <<>>, build |-> <<>>]
NoTask == [op |-> "none", roots |-> <<>>, missing_only |-> FALSE, runs |-> 0]
Build(roots, n) == [op |-> "build", roots |-> roots, missing_only |-> FALSE, runs |-> n]
Fetch(roots, mo, n) == [op |-> "fetch", roots |-> roots, missing_only |-> mo, runs |-> n]
Graph(src, app, top) ==
    [p \in Pkgs |-> CASE p = "h_src" -> src [] p = "h_app" -> app [] p = "h_top" -> top
                      [] OTHER -> NoDeps]

\* dependency graphs for one builder: chains, diamonds, a dependency listed twice
OrderGraphs ==
    {Graph([run |-> s, build |-> <<>>], [run |-> ar, build |-> ab], [run |-> tr, build |-> tb]) :
        s \in {<<>>, <<"h_lib">>},
        ar \in {<<>>, <<"h_lib">>, <<"h_src">>},  ab \in {<<>>, <<"h_src">>},
        tr \in {<<>>, <<"h_app">>, <<"h_lib", "h_app">>, <<"h_app", "h_lib">>, <<"h_app", "h_app">>},
        tb \in {<<>>, <<"h_src">>, <<"h_app">>}}
OrderScenarios ==
    {[deps |-> g, task |-> [w1 |-> Build(r, MaxRuns), w2 |-> NoTask], cleanups |-> 0] :
        g \in OrderGraphs, r \in {<<"h_top">>, <<"h_app", "h_top">>, <<"h_top", "h_lib", "h_top">>}}

\* processes that share the store with each other and with cleanup
AppLib == Graph(NoDeps, [run |-> <<"h_lib">>, build |-> <<>>], NoDeps)
Sc1 == [deps |-> AppLib, cleanups |-> 1,
        task |-> [w1 |-> Build(<<"h_lib">>, MaxRuns), w2 |-> Build(<<"h_lib">>, 1)]]
Sc2 == [deps |-> AppLib, cleanups |-> 1,
        task |-> [w1 |-> Build(<<"h_app">>, MaxRuns), w2 |-> NoTask]]
Sc3 == [deps |-> AppLib, cleanups |-> 1,
        task |-> [w1 |-> Fetch(<<"h_d1">>, FALSE, MaxRuns), w2 |-> Fetch(<<"h_d1">>, FALSE, 1)]]
Sc4 == [deps |-> AppLib, cleanups |-> MaxCleanups,
        task |-> [w1 |-> Fetch(<<"h_d0">>, TRUE, MaxRuns), w2 |-> Fetch(<<"h_d1">>, FALSE, 1)]]
Sc5 == [deps |-> AppLib, cleanups |-> 1,
        task |-> [w1 |-> Build(<<"h_src">>, 1), w2 |-> Build(<<"h_src">>, 1)]]
Sc6 == [deps |-> AppLib, cleanups |-> MaxCleanups,
        task |-> [w1 |-> Fetch(<<"h_d3">>, FALSE, MaxRuns), w2 |-> NoTask]]
\* two fetchers of one digest, one of them with a second URL to fall back on
Sc7 == [deps |-> AppLib, cleanups |-> 1,
        task |-> [w1 |-> Fetch(<<"h_d2">>, FALSE, MaxRuns), w2 |-> Fetch(<<"h_d1">>, FALSE, 1)]]
\* a seeder next to a fetcher and cleanup
Sc8 == [deps |-> AppLib, cleanups |-> MaxCleanups, seeder |-> TRUE,
        task |-> [w1 |-> Fetch(<<"h_d1">>, FALSE, 1), w2 |-> NoTask]]
\* a build workspace cleanup cannot remove
Sc9 == [deps |-> AppLib, cleanups |-> MaxCleanups, rmFails |-> TRUE,
        task |-> [w1 |-> Build(<<"h_app">>, 1), w2 |-> NoTask]]
\* a resource whose URL list holds a magnet link that names no info hash
Sc10 == [deps |-> AppLib, cleanups |-> 0,
         task |-> [w1 |-> Fetch(<<"h_d4">>, FALSE, MaxRuns), w2 |-> NoTask]]
\* a store with leftovers: the session directory of a fetcher that was killed
\* and a work dir directly under <fetch_root>, both expired
Sc11 == [deps |-> AppLib, cleanups |-> 1, left |-> TRUE,
         task |-> [w1 |-> Fetch(<<"h_d3">>, FALSE, 1), w2 |-> NoTask]]
SharedScenarios == {Sc1, Sc2, Sc3, Sc4, Sc5, Sc6, Sc7, Sc8, Sc9, Sc10, Sc11}

Scenarios == OrderScenarios \cup SharedScenarios

Hist0 == [calls |-> [w \in Workers |-> <<>>], retOk |-> [w \in Workers |-> {}],
          hit |-> {}, body |-> {}, bodyFail |-> {}, built |-> {}, stale |-> {}, sandbox |-> {},
          rootfs |-> {},
          gcAt |-> {}, gcDuring |-> {}, overlap |-> {}, noArt |-> {},
          cfRet |-> [w \in Workers |-> [ok |-> FALSE, err |-> "", n |-> 0]],
          cfHit |-> {}, cfGot |-> {}, renamed |-> {}, good |-> [w \in Workers |-> FALSE],
          dl |-> {}, skip |-> {},
          began |-> [w \in Workers |-> FALSE], safe |-> {}]

NoEnv == [seeder |-> FALSE, rmFails |-> FALSE, left |-> FALSE]
EnvOf(sc) == [seeder  |-> "seeder" \in DOMAIN sc /\ sc.seeder,
              rmFails |-> "rmFails" \in DOMAIN sc /\ sc.rmFails,
              left    |-> "left" \in DOMAIN sc /\ sc.left]

\* manifests for the graph builder: oA and oB differ in name and perhaps in build,
\* oQ is oP with two entries of runDeps or of buildDeps swapped
Obj(name, build, rdeps, bdeps) ==
    [name |-> name, build |-> build, fetch |-> <<R_file>>, runDeps |-> rdeps, buildDeps |-> bdeps]
DepLists(n) == UNION {[1..k -> {"oA", "oB", "oC"}] : k \in 0..n}
Swapped(list, i, j) ==
    IF {i, j} \subseteq DOMAIN list
    THEN [k \in DOMAIN list |-> IF k = i THEN list[j] ELSE IF k = j THEN list[i] ELSE list[k]]
    ELSE list
Manifests ==
    {[NoGb EXCEPT
        !.roots = roots, !.swap = <<f, i, j>>,
        !.objs = [oA |-> Obj("a", "mk", <<>>, <<>>),
                  oB |-> Obj(nb, bb, <<>>, <<>>),
                  oC |-> Obj("c", "cc", <<"oA">>, <<>>),
                  oP |-> Obj("p", "mk", rl, bl),
                  oQ |-> Obj("p", "mk", IF f = "runDeps" THEN Swapped(rl, i, j) ELSE rl,
                                        IF f = "buildDeps" THEN Swapped(bl, i, j) ELSE bl)]] :
        nb \in {"b", ""}, bb \in {"mk", "mk2"},
        rl \in DepLists(MaxDeps), bl \in DepLists(MaxDeps - 1),
        f \in {"runDeps", "buildDeps"}, i \in 1..MaxDeps, j \in 1..MaxDeps,
        roots \in {<<"oA", "oB", "oP", "oQ">>, <<"oQ", "oB", "oA", "oP">>}}

\* manifests with reference cycles (oA -> oA, oC -> oA -> oC) and refused names
CycleManifests ==
    {[NoGb EXCEPT
        !.roots = roots,
        !.objs = [oA |-> Obj(na, "mk", ra, <<>>),
                  oB |-> Obj("b", "mk2", <<>>, <<>>),
                  oC |-> Obj("c", "cc", <<"oA">>, <<>>),
                  oP |-> Obj(np, "mk", rl, bl),
                  oQ |-> Obj("q", "mk", <<>>, <<>>)]] :
        na \in {"a", "a/b"}, ra \in {<<>>, <<"oA">>, <<"oC">>}, np \in {"p", "a/b"},
        rl \in DepLists(MaxDeps), bl \in DepLists(MaxDeps - 1),
        roots \in {<<"oP", "oB">>, <<"oB", "oC", "oP">>}}

\* manifests whose fetch entries carry strings with NUL bytes, which
\* read_required_string (package.rs:282-295) passes on as they are: one entry
\* named "a\0b\0c", and the entries "a"/"b" and "c"/"d"
SepManifests ==
    LET one == <<[filename |-> "a" \o NUL \o "b" \o NUL \o "c", sha256 |-> "d", urls |-> <<>>]>>
        two == <<[filename |-> "a", sha256 |-> "b", urls |-> <<>>],
                 [filename |-> "c", sha256 |-> "d", urls |-> <<>>]>>
    IN  {[NoGb EXCEPT
            !.roots = roots,
            !.objs = [oA |-> [Obj("a", "mk", <<>>, <<>>) EXCEPT !.fetch = fa],
                      oB |-> [Obj("a", bb, <<>>, <<>>) EXCEPT !.fetch = fb],
                      oC |-> Obj("c", "cc", <<"oA">>, <<>>),
                      oP |-> Obj("p", "mk", <<"oB">>, <<"oA">>),
                      oQ |-> Obj("q", "mk", <<>>, <<>>)]] :
            fa \in {one, two}, fb \in {one, two, <<R_file>>}, bb \in {"mk", "mk2"},
            roots \in {<<"oA", "oB">>, <<"oP", "oC">>}}

StoreInit ==
    /\ art = [b \in Bases |-> "none"]
    /\ bdir = [b \in Bases |-> NoDir]
    /\ lockIno = [n \in LockNames |-> 0]
    /\ lockOld = [n \in LockNames |-> FALSE]
    /\ ffile = [s \in Shas |-> NoFile]
    /\ ftmp = [s \in Shas |-> NoFile]
    /\ mirror = [i \in InfoHashes |-> NoMirror]
    /\ pc = [w \in Workers |-> "idle"]
    /\ run = [w \in Workers |-> 0]
    /\ order = [w \in Workers |-> <<>>]
    /\ idx = [w \in Workers |-> 1]
    /\ arts = [w \in Workers |-> <<>>]
    /\ fdP = [w \in Workers |-> NoFd]
    /\ fdF = [w \in Workers |-> NoFd]
    /\ fidx = [w \in Workers |-> 1]
    /\ cf = [w \in Workers |-> [urls |-> <<>>, ui |-> 1, last_err |-> "none", tinfo |-> "none"]]
    /\ fetcher = [w \in Workers |-> FALSE]
    /\ result = [w \in Workers |-> [r \in 1..MaxRuns |-> NoResult]]
    /\ gc = GcIdle
    /\ seed = SeedOff
    /\ ts = [sess |-> [k \in SessIds |->
                          IF k = "x" /\ env.left
                          THEN [NoSess EXCEPT !.dir = TRUE, !.lockf = TRUE, !.old = TRUE,
                                              !.wd = "old"]
                          ELSE NoSess],
             top |-> [s \in Shas |-> IF env.left THEN "old" ELSE "none"],
             ctr |-> [w \in Workers |-> 0],
             wk |-> [w \in Workers |-> [st |-> "none", q |-> <<>>]]]
    /\ hist = Hist0
    /\ obs = NoObs

Init ==
    /\ \E sc \in Scenarios :
          deps = sc.deps /\ task = sc.task /\ cleanLeft = sc.cleanups /\ env = EnvOf(sc)
    /\ gb = NoGb
    /\ StoreInit

\* one step of the process of worker w (`magpkg build` or `magpkg fetch`)
WorkerNext(w) ==
    \/ StartBuild(w) \/ BsOpen(w) \/ BsLock(w) \/ BsMkdir(w) \/ BsInstall(w)
    \/ BsUntar(w) \/ BsSpawn(w) \/ \E st \in ExitStatuses : BsExit(w, st)
    \/ StartFetch(w) \/ FpLoop(w)
    \/ CfOpen(w) \/ CfLock(w) \/ CfFetch(w) \/ TfLock(w) \/ WkRecv(w)
    \/ \E out \in {"early", "addfail", "late", "final", "good", "bad"} : CfStream(w, out)
    \/ CfVerify(w) \/ CfRename(w) \/ CfMirror(w)
\* one step of the `magpkg cleanup` process
GcNext ==
    \/ GcStart \/ (\E b \in Bases : GcPkgLock(b)) \/ GcPkgSweep \/ GcPkgUnlink
    \/ GcFetchScan \/ (\E s \in Shas : GcFetchLock(s)) \/ GcFetchSweep \/ GcFetchUnlink
    \/ GcOrphans \/ (\E k \in SessIds : GcSessSweep(k)) \/ GcSessRemove
    \/ GcSeedLock \/ GcTorrents

Next ==
    \/ \E w \in Workers : WorkerNext(w)
    \/ GcNext
    \/ SeederStart \/ SeederLock \/ SeederSync \/ SeederStop
    \/ TimePasses

Spec == Init /\ [][Next]_vars

\* The processes that take package and fetch locks: a builder and a fetcher of
\* one digest next to a cleanup run, a torrent fetcher next to a cleanup run, a
\* fetcher with two torrent URLs, and two builders of one package.
ScL == [deps |-> AppLib, cleanups |-> 1,
        task |-> [w1 |-> Build(<<"h_d1">>, 1), w2 |-> Fetch(<<"h_d1">>, FALSE, 1)]]
LiveInit ==
    /\ \E sc \in {ScL, Sc10, Sc11, [Sc5 EXCEPT !.cleanups = 0]} :
          deps = sc.deps /\ task = sc.task /\ cleanLeft = sc.cleanups /\ env = EnvOf(sc)
    /\ gb = NoGb
    /\ StoreInit
LiveNext == (\E w \in Workers : WorkerNext(w)) \/ GcNext \/ TimePasses
\* Every process that can take a step eventually takes one: a build command that
\* was spawned exits, a transfer that was started ends, a blocking flock returns
\* once the lock stays free.
LiveSpec ==
    /\ LiveInit /\ [][LiveNext]_vars
    /\ \A w \in Workers : WF_vars(WorkerNext(w))
    /\ WF_vars(GcNext)

\* the graph builder alone, on every manifest
GraphInit ==
    /\ deps = AppLib /\ task = [w \in Workers |-> NoTask] /\ cleanLeft = 0 /\ env = NoEnv
    /\ gb \in {m \in Manifests :
                  LET l == m.objs.oP[m.swap[1]] IN
                  m.swap[2] < m.swap[3] /\ m.swap[3] <= Len(l)}
               \cup CycleManifests \cup SepManifests
    /\ StoreInit

GraphNext == AddPackage

GraphSpec == GraphInit /\ [][GraphNext]_vars

---------------------------------------------------------------------------
(* Properties. *)

Range(seq) == {seq[i] : i \in DOMAIN seq}
\* the closure of roots over run_deps and build_deps
Closure(roots) == Range(roots) \cup UNION {TransDeps(p) : p \in Range(roots)}
\* the processes holding the exclusive lock of some inode of lock file n
PkgHolders(n) == {w \in Workers : fdP[w].name = n /\ fdP[w].locked}
                 \cup (IF gc.fd.name = n /\ gc.fd.locked THEN {"gc"} ELSE {})
FetchHolders(n) == {w \in Workers : fdF[w].name = n /\ fdF[w].locked}
                   \cup (IF gc.fd.name = n /\ gc.fd.locked THEN {"gc"} ELSE {})
\* build_single calls (worker, invocation, package) that have returned
Returned == hist.built \cup hist.hit \cup hist.bodyFail
\* a cache_fetch call of worker w returns Ok in this step
CfReturnsOk(w) == hist'.cfRet[w].n # hist.cfRet[w].n /\ hist'.cfRet[w].ok

\* one of two overlapping calls built the artifact and the other found it
OneBuiltOtherHit(k1, k2) ==
    /\ ~({k1, k2} \subseteq hist.body)
    /\ ({k1, k2} \subseteq hist.noArt /\ {k1, k2} \subseteq Returned
          => \/ k1 \in hist.built /\ k2 \in hist.hit
             \/ k2 \in hist.built /\ k1 \in hist.hit)

C2_OneInPackageSection == \A b \in Bases : Cardinality(PkgHolders(b)) <= 1

\* C3: for every digest, at most one process at a time is inside a section guarded
\* by <sha>.lock, and a process that is not inside cache_fetch holds no fetch lock.
C3_OneInFetchSection ==
    /\ \A s \in Shas : Cardinality(FetchHolders(s)) <= 1
    /\ \A w \in Workers :
          pc[w] \notin {"cf_lock", "cf_fetch", "cf_stream", "cf_verify", "cf_rename", "cf_mirror"}
          => fdF[w] = NoFd

\* C4: within one build_packages invocation every package of the closure of the
\* roots is passed to build_single exactly once, and only after build_single has
\* returned successfully for each of its transitive dependencies.
C4_DepsBeforeDependents ==
    \A w \in Workers :
        task[w].op = "build" =>
        LET c == hist.calls[w] IN
        /\ \A i, j \in DOMAIN c : i # j => c[i] # c[j]
        /\ Range(c) \subseteq Closure(task[w].roots)
        /\ \A i \in DOMAIN c : TransDeps(c[i]) \subseteq {c[j] : j \in 1..(i - 1)}
        /\ (fdP[w] # NoFd => TransDeps(CurPkg(w)) \subseteq hist.retOk[w])
        /\ (run[w] >= 1 /\ pc[w] = "idle" /\ result[w][run[w]].ok
              => /\ Range(c) = Closure(task[w].roots)
                 /\ hist.retOk[w] = Closure(task[w].roots))

C4_Witness ==
    \E w \in Workers :
        /\ run[w] >= 1 /\ pc[w] = "idle" /\ result[w][run[w]].ok
        /\ hist.calls[w] = <<"h_lib", "h_src", "h_app", "h_top">>
        /\ deps["h_top"].run = <<"h_lib", "h_app">> /\ deps["h_top"].build = <<"h_src">>

\* the second invocation of w repeats the first without building
SecondCallRepeatsFirst(w) ==
    /\ result[w][2].ok
    /\ result[w][2].arts = result[w][1].arts
    /\ ~\E p \in Pkgs : <<w, 2, p>> \in hist.body
\* w has finished a second build_packages call after a successful first one
TwoCallsDone(w) ==
    /\ task[w].op = "build" /\ run[w] >= 2 /\ result[w][1].ok
    /\ result[w][2] # NoResult

\* C5 (as stated): after a successful build_packages(roots), a second call with the
\* same roots and no cleanup between the two calls returns the same artifact paths
\* and executes no build body (neither sandbox nor untar).
C5_Idempotent ==
    \A w \in Workers :
        TwoCallsDone(w) /\ <<w, "gap">> \notin hist.gcAt => SecondCallRepeatsFirst(w)

\* C5 (amended): the same, provided no cleanup runs at any time from the start of
\* the first call to the return of the second.
C5_IdempotentWithoutCleanup ==
    \A w \in Workers :
        TwoCallsDone(w) /\ hist.gcAt \cap {<<w, "call1">>, <<w, "gap">>, <<w, "call2">>} = {}
        => SecondCallRepeatsFirst(w)

C5_Witness ==
    \E w \in Workers :
        /\ TwoCallsDone(w) /\ run[w] = 2 /\ pc[w] = "idle"
        /\ hist.gcAt \cap {<<w, "call1">>, <<w, "gap">>, <<w, "call2">>} = {}
        /\ Len(result[w][2].arts) >= 2
        /\ \E p \in Pkgs : <<w, 1, p>> \in hist.built
        /\ SecondCallRepeatsFirst(w)

\* C6: when the sandbox executor exits with a nonzero status, build_single fails
\* with CommandFailure carrying that status, <base>.build/ still exists and
\* <base>.tar.zst does not.
C6_FailedBuildLeavesWorkspace ==
    [][\A w \in Workers :
          pc[w] = "bs_wait" /\ pc'[w] = "idle" /\ ~result'[w][run[w]].ok
          => /\ result'[w][run[w]].err \in {CommandFailure(st) : st \in ExitStatuses \ {0}}
             /\ bdir'[CurBase(w)].ex
             /\ art'[CurBase(w)] = "none"]_vars

\* C7: when build_single returns successfully after building, <base>.build/ does
\* not exist, and a build starts from an empty <base>.build/ whatever a stale one held.
C7_WorkspaceRemoved ==
    [][\A w \in Workers :
          /\ (pc[w] = "bs_mkdir" /\ pc'[w] # "bs_mkdir"
                => bdir'[CurBase(w)] = [ex |-> TRUE, files |-> {}])
          /\ (fdP[w] # NoFd /\ <<w, run[w], CurPkg(w)>> \in hist'.built \ hist.built
                => bdir'[CurBase(w)] = NoDir)]_vars

C7_Witness ==
    \E k \in hist.stale \cap hist.built : PkgDef[k[3]].build \in {"make", "untar"}

\* C8: whenever cache_fetch returns a path successfully, the file <fetch_root>/<sha256>
\* has the declared SHA-256 at that moment.
C8_DigestMatchesAtReturn ==
    [][\A w \in Workers :
          CfReturnsOk(w) => verify_sha256(ffile'[CurSha(w)].c)]_vars

\* C9: <fetch_root>/<sha256> only ever holds content that was renamed into place
\* after verification; nothing partial or mismatched is under the canonical name.
C9_CanonicalNameVerified ==
    /\ \A s \in Shas : ffile[s].c \in {"none", "good"} /\ ffile[s].by = ""
    /\ hist.renamed \subseteq {"good"}

\* C10: whenever cache_fetch returns successfully, some torrent mirror directory
\* holds resource.torrent and the payload copy at that moment.
C10_MirrorAtReturn ==
    [][\A w \in Workers :
          CfReturnsOk(w) => \E i \in InfoHashes : mirror'[i].torrent /\ mirror'[i].payload]_vars

\* no operation is in progress on the store
Quiescent == gc.pc = "idle" /\ \A w \in Workers : pc[w] = "idle"

\* C11: in every state of the store after a sequence of cache_fetch, build and
\* cleanup operations, every final file <fetch_root>/<sha256> has a torrent mirror
\* directory that holds its resource.torrent and payload.
C11_EveryFetchFileHasMirror ==
    Quiescent /\ ~env.seeder =>
        \A s \in Shas : ffile[s].c # "none"
                          => \E i \in InfoHashes : mirror[i].torrent /\ mirror[i].payload

\* the worker is inside the URL loop of cache_fetch_locked
InUrlLoop(w) == pc[w] \in {"cf_fetch", "cf_stream", "cf_verify", "cf_rename", "cf_mirror"}
\* the place of url in list
Pos(list, url) == CHOOSE i \in DOMAIN list : list[i] = url

\* C12: on a cache miss the URLs are attempted torrent-like URLs first, then the
\* others, each group in its given relative order; after a URL whose bytes match
\* the declared SHA-256 no later URL is contacted.
C12_TorrentFirstStopAtMatch ==
    \A w \in Workers :
        InUrlLoop(w) =>
        LET u == cf[w].urls  given == CurFetch(w).urls IN
        /\ Len(u) = Len(given) /\ Range(u) = Range(given)
        /\ \A i, j \in DOMAIN u :
              i < j => /\ (is_torrent_url(u[j]) => is_torrent_url(u[i]))
                       /\ (is_torrent_url(u[i]) = is_torrent_url(u[j])
                             => Pos(given, u[i]) < Pos(given, u[j]))
        /\ (hist.good[w] => pc[w] \notin {"cf_fetch", "cf_stream"})

\* a cache_fetch call of worker w returns Err in this step
CfReturnsErr(w) == hist'.cfRet[w].n # hist.cfRet[w].n /\ ~hist'.cfRet[w].ok

\* C13: inside cache_fetch a transport error or a SHA-256 mismatch of one URL leads
\* to the next URL while untried URLs remain, the temp file of a mismatching
\* download being deleted; cache_fetch fails only when every URL has failed, with
\* the error of the last URL attempted and <fetch_root>/<sha256> absent.
C13_FailsOnlyWhenAllUrlsFailed ==
    [][\A w \in Workers :
          /\ (pc[w] = "cf_stream" /\ pc'[w] \notin {"cf_stream", "cf_verify"}
                              /\ cf[w].ui < Len(cf[w].urls)
                => pc'[w] = "cf_fetch" /\ cf'[w].ui = cf[w].ui + 1)
          /\ (pc[w] = "cf_verify" /\ pc'[w] \notin {"cf_verify", "cf_rename"}
                => /\ ftmp'[CurSha(w)] = NoFile
                   /\ (cf[w].ui < Len(cf[w].urls)
                         => pc'[w] = "cf_fetch" /\ cf'[w].ui = cf[w].ui + 1))
          /\ (InUrlLoop(w) /\ CfReturnsErr(w)
                => /\ cf[w].ui = Len(cf[w].urls)
                   /\ pc[w] \in {"cf_stream", "cf_verify"}
                   /\ hist'.cfRet[w].err =
                         (IF pc[w] = "cf_stream" THEN "transport" ELSE "SHA mismatch")
                   /\ ffile'[CurSha(w)].c = "none")]_vars

\* the messages of the MagError::Generic errors of the store (store.rs:370, 700,
\* 729, 1150) and the variants of MagError (main.rs:177-207) an error can be
GenericMessages == {"no URLs provided", "SHA mismatch", "missing artifact",
                    "untar needs a fetch", "magnet link"}
MagErrorVariants(e) ==
    IF e \in GenericMessages THEN {"Generic"}
    ELSE IF e = "io" THEN {"Io"}
    ELSE {"Io", "Network", "Generic"}

\* a cache_fetch call of worker w returns in this step
CfReturns(w) == hist'.cfRet[w].n # hist.cfRet[w].n

\* C14 (as stated): cache_fetch on a FetchResource whose URL list is empty fails
\* with a NoUrls error.
C14_EmptyUrlListFails ==
    [][\A w \in Workers :
          CfReturns(w) /\ CurFetch(w).urls = <<>>
          => ~hist'.cfRet[w].ok /\ MagErrorVariants(hist'.cfRet[w].err) = {"NoUrls"}]_vars

\* C14 (amended): cache_fetch on a FetchResource whose URL list is empty returns
\* the cached path when <fetch_root>/<sha256> holds the declared content, and
\* otherwise fails with the Generic error "no URLs provided".
C14_EmptyUrlListFailsOnMiss ==
    [][\A w \in Workers :
          CfReturns(w) /\ CurFetch(w).urls = <<>>
          => IF ffile[CurSha(w)].c = "good"
             THEN hist'.cfRet[w].ok
             ELSE /\ ~hist'.cfRet[w].ok
                  /\ hist'.cfRet[w].err = "no URLs provided"
                  /\ MagErrorVariants(hist'.cfRet[w].err) = {"Generic"}]_vars

C14_Witness ==
    \E w \in Workers :
        /\ task[w].roots = <<"h_d0">> /\ run[w] = 2 /\ pc[w] = "idle"
        /\ result[w][1].err = "no URLs provided" /\ result[w][2].ok
        /\ <<w, 2>> \in hist.cfHit

\* the cleanup calls k - 1 and k both returned Ok(stats)
BothOk(k) == obs.log[k - 1].res = "ok" /\ obs.log[k].res = "ok"

Undisturbed(k) ==
    /\ ~obs.log[k - 1].during
    /\ ~obs.log[k].gap /\ ~obs.log[k].aged /\ ~obs.log[k].during

C17_CleanupContinues ==
    [][gc.pc = "cp_sweep" /\ bdir[gc.cur].ex /\ env.rmFails /\ gc' # gc
         => /\ gc'.pc \in {"cp", "cp_unlink"}
            /\ obs'.log[Len(obs'.log)].res = "running"]_vars

\* C18: whenever build_packages or fetch_packages has returned, with success or
\* with an error, the store holds no torrent fetcher.
C18_NoFetcherAfterReturn ==
    \A w \in Workers : pc[w] = "idle" => ~fetcher[w]

\* the graph builder has evaluated object o; the package it resolved to
Evaluated(o) == o \in DOMAIN gb.by_obj
PkgOf(o) == gb.by_obj[o]
\* the list of oP two of whose entries are swapped in oQ, and the two entries
SwapList == gb.objs.oP[gb.swap[1]]
SwapA == SwapList[gb.swap[2]]
SwapB == SwapList[gb.swap[3]]

\* C19 (as stated): swapping two entries of a package's runDeps list, or of its
\* buildDeps list, changes the package's hash.
C19_SwapChangesHash ==
    Evaluated("oP") /\ Evaluated("oQ") => PkgOf("oP").hash # PkgOf("oQ").hash

\* C19 (amended): swapping two entries that are different packages (packages with
\* different hashes) changes the package's hash.
C19_SwapOfDistinctChangesHash ==
    Evaluated("oP") /\ Evaluated("oQ") /\ PkgOf(SwapA).hash # PkgOf(SwapB).hash
    => PkgOf("oP").hash # PkgOf("oQ").hash

C19_Witness ==
    /\ Evaluated("oP") /\ Evaluated("oQ") /\ PkgOf(SwapA).hash # PkgOf(SwapB).hash
    /\ gb.swap = <<"runDeps", 1, 3>> /\ Len(gb.objs.oP.buildDeps) = 2
    /\ PkgOf("oP").hash # PkgOf("oQ").hash

\* objects oA and oB have identical build, fetch and deps, and different names
SameButName ==
    /\ gb.objs.oA.name # gb.objs.oB.name
    /\ [gb.objs.oA EXCEPT !.name = ""] = [gb.objs.oB EXCEPT !.name = ""]

\* C20 (as stated): two objects with identical build, fetch and deps but different
\* names, evaluated by one graph builder, give packages with the same hash h and
\* the distinct base names <nameA>-<h> and <nameB>-<h>.
C20_DistinctBaseNames ==
    Evaluated("oA") /\ Evaluated("oB") /\ SameButName
    => LET a == PkgOf("oA")  b == PkgOf("oB") IN
       /\ a.hash = b.hash
       /\ BaseName(a.name, a.hash) = BaseName(gb.objs.oA.name, a.hash)
       /\ BaseName(b.name, b.hash) = BaseName(gb.objs.oB.name, a.hash)
       /\ BaseName(a.name, a.hash) # BaseName(b.name, b.hash)

\* C20 (amended): such objects resolve to one and the same package, the one made
\* for whichever was evaluated first: the two results have the same hash h and
\* the same base name, made of that one's name and h.
C20_SamePackageForBoth ==
    Evaluated("oA") /\ Evaluated("oB") /\ SameButName
    => LET a == PkgOf("oA")  b == PkgOf("oB") IN
       /\ a = b
       /\ a.name \in {gb.objs.oA.name, gb.objs.oB.name}
       /\ BaseName(a.name, a.hash) = BaseName(b.name, b.hash)
       /\ a.hash = compute_hash(gb.objs.oA.build, gb.objs.oA.fetch, <<>>, <<>>)

C20_Witness ==
    /\ Evaluated("oA") /\ Evaluated("oB") /\ SameButName
    /\ gb.roots[1] = "oA" /\ gb.objs.oB.name = "b"
    /\ BaseName(PkgOf("oB").name, PkgOf("oB").hash) = BaseName("a", PkgOf("oA").hash)

\* the objects a package object names in runDeps and buildDeps, and the objects
\* reachable from a set of objects
DepsOf(o) == Range(gb.objs[o].runDeps) \cup Range(gb.objs[o].buildDeps)
RECURSIVE ObjReach(_)
ObjReach(S) == LET n == S \cup UNION {DepsOf(o) : o \in S} IN IF n = S THEN S ELSE ObjReach(n)
\* object o reaches itself; root r reaches such an object
OnCycle(o) == o \in ObjReach(DepsOf(o))
ReachesCycle(r) == \E o \in ObjReach({r}) : OnCycle(o)
\* item k of the manifest has been handed to add_package
Added(k) == k \in DOMAIN gb.roots /\ k < gb.next

\* C21 (as stated): a manifest in which a package object reaches itself through
\* runDeps/buildDeps makes graph construction fail with DependencyCycle, and no
\* Package node is returned for it.
C21_CycleFailsWithDependencyCycle ==
    \A k \in DOMAIN gb.roots :
        Added(k) /\ ReachesCycle(gb.roots[k])
        => /\ gb.err = "DependencyCycle" /\ Len(gb.out) < k
           /\ \A o \in DOMAIN gb.by_obj : ~OnCycle(o)

\* C21 (amended): such a manifest makes graph construction fail and no Package
\* node is returned for it; the error is DependencyCycle when no object reachable
\* from the item has a refused name, and otherwise DependencyCycle or the error
\* of that name.
C21_CycleFails ==
    \A k \in DOMAIN gb.roots :
        Added(k) /\ ReachesCycle(gb.roots[k])
        => /\ gb.err \in {"DependencyCycle", "Generic"} /\ Len(gb.out) < k
           /\ \A o \in DOMAIN gb.by_obj : ~OnCycle(o)
           /\ ((\A o \in ObjReach({gb.roots[k]}) : gb.objs[o].name \notin InvalidNames)
                 => gb.err = "DependencyCycle")

C21_Witness ==
    /\ gb.roots = <<"oB", "oC", "oP">> /\ gb.next = 3 /\ gb.out = <<gb.by_obj["oB"]>>
    /\ gb.objs.oA.runDeps = <<"oC">> /\ gb.objs.oA.name = "a"
    /\ gb.err = "DependencyCycle"

\* C22: when package A has build-dep C and C depends on B, the rootfs of A's
\* build holds B's files as well as C's under /store/<base(C)>/.
C22_BuildDepDirHoldsItsDeps ==
    \A r \in hist.rootfs :
        \A c \in Range(deps[r.pkg].build) :
            \A b \in DirectDeps(c) : {b, c} \subseteq r.store[package_base_name(c)]

\* the places of seq that hold x
Places(seq, x) == {i \in DOMAIN seq : seq[i] = x}

\* C23: the rootfs of package p receives every package of the transitive closure
\* of p's build-deps and run-deps exactly once, each after its own dependencies,
\* and never p itself.
C23_ClosureOnceDepsFirst ==
    \A r \in hist.rootfs :
        /\ Range(r.order) = TransDeps(r.pkg)
        /\ \A d \in TransDeps(r.pkg) : Cardinality(Places(r.order, d)) = 1
        /\ \A i \in DOMAIN r.order :
              \A d \in DirectDeps(r.order[i]) : \E j \in 1..(i - 1) : r.order[j] = d
        /\ r.pkg \notin Range(r.order)

C23_Witness ==
    \E r \in hist.rootfs :
        /\ r.pkg = "h_top" /\ Len(r.order) = 3
        /\ deps["h_top"].run = <<"h_app", "h_lib">> /\ deps["h_top"].build = <<"h_src">>
        /\ "h_lib" \in DirectDeps("h_app") /\ "h_lib" \in DirectDeps("h_src")

\* the cleanup process holds the lock of the lock file that path n names
GcHolds(n) == gc.fd.name = n /\ gc.fd.locked /\ gc.fd.ino = lockIno[n]
\* a step of the cleanup process unlinks lock file n
GcUnlinks(n) == gc' # gc /\ lockIno[n] # 0 /\ lockIno'[n] = 0

\* C25: cleanup_packages changes a package base only while holding <base>.lock
\* (on WouldBlock artifact, build dir and lock file stay as they are); it removes
\* an artifact only if expired, and unlinks the lock file only if neither artifact
\* nor build dir exists and the lock file is expired.
C25_PackageSweepUnderLock ==
    [][\A b \in Bases :
          /\ (gc' # gc /\ (art'[b] # art[b] \/ bdir'[b] # bdir[b])
                => GcHolds(b) /\ (art'[b] # art[b] => art[b] = "old" /\ art'[b] = "none"))
          /\ (GcUnlinks(b)
                => /\ GcHolds(b)
                   /\ art[b] = "none" /\ ~bdir[b].ex /\ Expired(lockOld[b]))]_vars

\* a cache_fetch call of worker w finds a cached file that matches when it has the lock
CfFindsMatch(w) ==
    /\ pc[w] = "cf_lock" /\ pc'[w] # "cf_lock"
    /\ ffile[CurSha(w)].c # "none" /\ verify_sha256(ffile[CurSha(w)].c)

\* C24: a cached file that exists and matches when cache_fetch has the lock is
\* returned successfully without any transport, whatever the URL list; a cached
\* file that does not match is deleted before any URL is tried.
C24_HitReturnsWithoutTransport ==
    [][\A w \in Workers :
          /\ (CfFindsMatch(w)
                => CfReturnsOk(w) /\ cf'[w] = cf[w] /\ fetcher'[w] = fetcher[w]
                   /\ ftmp' = ftmp)
          /\ (pc[w] = "cf_lock" /\ pc'[w] = "cf_fetch"
                => ffile'[CurSha(w)].c = "none")]_vars

\* C26: cleanup_fetches skips a sha group whose lock is contested: once try-lock
\* gave WouldBlock, no entry of the group (final file, .tmp partial, torrent work
\* dir, lock file) is removed during that run.
C26_ContestedGroupUntouched ==
    [][\A s \in hist.skip :
          gc' # gc => /\ (ffile[s].c # "none" => ffile'[s].c # "none")
                      /\ (ftmp[s].c # "none" => ftmp'[s].c # "none")
                      /\ (ts.top[s] # "none" => ts'.top[s] # "none")
                      /\ (lockIno[s] # 0 => lockIno'[s] # 0)]_vars

\* a torrent fetcher is alive now: it holds the lock of its session's lock file
LiveNow(w) == fetcher[w] /\ ts.sess[w].held = "own"
\* the running cleanup found a session's lock contested when it listed <fetch_root>
FoundLive == \E k \in SessIds : gc.sinfo[k].st = "active"
\* a step of cleanup removes a work dir: one of a sha group, one of a session
GcRemovesTopWd(s) == gc' # gc /\ ts.top[s] # "none" /\ ts'.top[s] = "none"
GcRemovesSessWd(k) == gc' # gc /\ ts.sess[k].wd # "none" /\ ts'.sess[k].wd = "none"

\* C27 (as stated): while at least one torrent session under <fetch_root> is
\* live, a cleanup_fetches run removes no torrent work directory at all, and no
\* lock file of a group that still has a work directory.
C27_NoWorkDirRemovedWhileLive ==
    [][(\E w \in Workers : LiveNow(w))
         => /\ \A s \in Shas : ~GcRemovesTopWd(s)
            /\ \A k \in SessIds : ~GcRemovesSessWd(k)
            /\ \A s \in Shas : GcUnlinks(s) => ts.top[s] = "none"]_vars

\* C27 (amended): a cleanup_fetches run that found a session live when it listed
\* <fetch_root> removes no work directory of a sha group, and no lock file of a
\* group that still has a work directory; the expired work directories under
\* downloads/ of the sessions it found dead are removed all the same.
C27_NoGroupWorkDirRemovedIfFoundLive ==
    [][FoundLive
         => /\ \A s \in Shas : ~GcRemovesTopWd(s)
            /\ \A s \in Shas : GcUnlinks(s) => ts.top[s] = "none"]_vars

\* a run that found a live session has swept the group of an expired work dir
\* under the group's lock, and gone through the listed work dirs: the dir is there
C27_Witness ==
    /\ gc.pc = "cs" /\ FoundLive
    /\ gc.snap["s1"].wd /\ ts.top["s1"] = "old" /\ "s1" \notin hist.skip

\* C28: cleanup_fetches never removes or modifies the session directory, or a
\* directory under its downloads/, of a session whose fetcher is alive in another
\* process, however fetcher creation, downloads and cleanup interleave; a session
\* directory it removes is one of a dead session, and expired.
C28_LiveSessionUntouched ==
    [][gc' # gc
         => /\ \A w \in Workers :
                  LiveNow(w) => /\ ts'.sess[w].dir = ts.sess[w].dir
                                /\ ts'.sess[w].lockf = ts.sess[w].lockf
                                /\ ts'.sess[w].wd = ts.sess[w].wd
            /\ \A k \in SessIds :
                  ts.sess[k].dir /\ ~ts'.sess[k].dir => Expired(ts.sess[k].old)]_vars

\* worker w's store makes a torrent fetcher in this step
FetcherCreated(w) == ts'.ctr[w] # ts.ctr[w]

\* C29: the torrent fetcher is created lazily and at most once at a time per store
\* instance: a session is made only when a torrent-like URL is attempted and the
\* store holds no fetcher (never by an http/file URL or on a cache hit), at most
\* one per invocation, and all torrent downloads of an invocation use that one.
C29_LazySingleFetcher ==
    /\ [][\A w \in Workers :
             FetcherCreated(w) => /\ pc[w] = "cf_fetch" /\ is_torrent_url(CurUrl(w))
                                  /\ ~fetcher[w]
                                  /\ ts'.ctr[w] = ts.ctr[w] + 1]_vars
    /\ [](\A w \in Workers : ts.ctr[w] <= run[w])
    /\ [](\A a, b \in hist.dl : a[1] = b[1] /\ a[2] = b[2] => a[3] = b[3])

\* the second torrent URL of a call is being downloaded by the fetcher that the
\* first one made
C29_Witness ==
    /\ pc["w1"] = "cf_stream" /\ cf["w1"].ui = 2 /\ is_torrent_url(CurUrl("w1"))
    /\ fetcher["w1"] /\ ts.ctr["w1"] = 1
    /\ <<"w1", 1, ts.sess["w1"].id>> \in hist.dl

\* a torrent Download request of worker w ends with an error in this step
TorrentRequestFails(w) ==
    /\ pc[w] = "cf_stream" /\ is_torrent_url(CurUrl(w))
    /\ pc'[w] # "cf_stream" /\ pc'[w] # "cf_verify"

\* C30: when any step of a torrent Download request fails (adding the torrent,
\* waiting for completion, the single-file check, the missing-payload check, the
\* copy to dest), the worker has removed the request's work directory when it
\* replies with the error.
C30_FailedRequestRemovesWorkDir ==
    [][\A w \in Workers : TorrentRequestFails(w) => ts'.sess[w].wd = "none"]_vars

\* C35: a coordinator never holds more than one package lock: between two
\* build_single calls and after the last one (success or error) it has no
\* package lock file open, so the lock of one package is released before the
\* lock of the next is requested.
C35_OnePackageLockAtATime ==
    \A w \in Workers :
        /\ pc[w] \in {"idle", "bs_open"} => fdP[w] = NoFd
        /\ fdP[w] # NoFd => fdP[w].name = CurBase(w)

\* a builder is about to request the lock of the second package of its order,
\* the first build_single having returned Ok
C35_Witness ==
    \E w \in Workers :
        /\ pc[w] = "bs_open" /\ idx[w] = 2 /\ task[w].op = "build"
        /\ Len(arts[w]) = 1 /\ fdP[w] = NoFd

\* build_single of worker w returns Ok in this step
BuildSingleOk(w) == task[w].op = "build" /\ Len(arts'[w]) = Len(arts[w]) + 1

\* C36: every successful build_single, on a cache hit or after a build, leaves
\* artifact and <base>.lock with an mtime of now, and a cleanup run whose cutoff
\* lies before that call removes neither.  hist.safe holds the bases of the
\* successful calls that began and returned since time last passed: the cutoff of
\* every cleanup run there is until time passes again lies before those calls.
C36_FreshArtifactAndLockSurvive ==
    [][/\ \A w \in Workers :
             BuildSingleOk(w) => /\ art'[CurBase(w)] = "fresh"
                                 /\ lockIno'[CurBase(w)] # 0 /\ ~lockOld'[CurBase(w)]
       /\ \A b \in hist.safe :
             gc' # gc => /\ (art[b] # "none" => art'[b] # "none")
                         /\ (lockIno[b] # 0 => lockIno'[b] # 0)]_vars

\* build_single of worker w returns Err in this step
BuildSingleErr(w) ==
    /\ task[w].op = "build" /\ pc[w] # "idle" /\ Len(arts'[w]) = Len(arts[w])
    /\ pc'[w] # pc[w] /\ pc'[w] \in {"idle", "bs_open"}
\* the packages after the current one in the order of worker w
LaterPkgs(w) == {order[w][i] : i \in (idx[w] + 1)..Len(order[w])}
\* C37: when build_single fails inside build_packages the invocation ends at
\* once: the step that returns the error releases the failing package's lock,
\* leaves build_packages, and removes no artifact of the store (so what was built
\* earlier in the invocation stays); no build body of a later package of the
\* order has run or runs in that invocation.
C37_FailureAbortsInvocation ==
    /\ [][\A w \in Workers :
             BuildSingleErr(w) => /\ pc'[w] = "idle" /\ ~result'[w][run[w]].ok
                                  /\ fdP'[w] = NoFd
                                  /\ art' = art]_vars
    /\ [](\A w \in Workers :
             task[w].op = "build" /\ pc[w] = "idle" /\ run[w] > 0 /\ ~result[w][run[w]].ok
                => \A p \in LaterPkgs(w) : <<w, run[w], p>> \notin hist.built)
C37_Witness ==
    \E w \in Workers :
        /\ task[w].op = "build" /\ pc[w] = "idle" /\ run[w] > 0 /\ ~result[w][run[w]].ok
        /\ Len(arts[w]) >= 1 /\ LaterPkgs(w) # {}
        /\ \A i \in 1..Len(arts[w]) : <<w, run[w], order[w][i]>> \in hist.built
        /\ \A i \in 1..Len(arts[w]) : art[package_base_name(order[w][i])] # "none"
\* C39: whenever cache_fetch returns, with the path or with an error, there is
\* no <fetch_root>/<sha256>.tmp: the temp file was renamed into place or deleted.
C39_NoTempFileAtReturn ==
    [][\A w \in Workers : CfReturns(w) => ftmp'[CurSha(w)] = NoFile]_vars
\* C38: builders, fetchers and cleanup cannot deadlock.  A process has at most
\* one package lock file open and, only inside build_single or fetch_packages,
\* at most one fetch lock file; a process waiting for a package lock holds no
\* fetch lock; cleanup never waits for a lock; and every process blocked in
\* lock_exclusive on a package or fetch lock eventually gets the lock, given that
\* builds and transfers terminate.
C38_NoDeadlock ==
    /\ [](\A w \in Workers :
             /\ pc[w] \in {"bs_open", "bs_lock"} => fdF[w] = NoFd
             /\ fdF[w] # NoFd /\ task[w].op = "build"
                   => fdP[w] # NoFd /\ fdP[w].locked /\ fdP[w].name = CurBase(w))
    /\ [](gc.pc # "idle" => ENABLED GcNext)
    /\ \A w \in Workers :
          /\ (pc[w] = "bs_lock") ~> (pc[w] # "bs_lock")
          /\ (pc[w] = "cf_lock") ~> (pc[w] # "cf_lock")
\* a builder that holds its package lock is blocked on the fetch lock a fetcher
\* holds, and cleanup is at work
C38_Witness ==
    \E w, v \in Workers :
        /\ task[w].op = "build" /\ pc[w] = "cf_lock" /\ fdP[w].locked
        /\ task[v].op = "fetch" /\ fdF[v].locked
        /\ fdF[v].name = fdF[w].name /\ fdF[v].ino = fdF[w].ino
        /\ gc.pc # "idle"
\* build_from_val of object o called in the builder's present state with the
\* objects V being visited
VisitFrom(o, V) ==
    build_from_val(gb.objs, o, [by_obj |-> gb.by_obj, by_hash |-> gb.by_hash, visiting |-> V])
\* C40: build_from_val leaves `visiting` as it found it on every exit, with a
\* package or with an error, so the set holds the objects of the current
\* recursion path only; DependencyCycle is reported only for an item that reaches
\* an object which reaches itself, never for a diamond or a dependency that is
\* listed twice.
C40_VisitingIsRecursionPath ==
    /\ \A o \in DOMAIN gb.objs : \A V \in SUBSET (DOMAIN gb.objs) :
          VisitFrom(o, V).visiting = V
    /\ gb.err = "DependencyCycle" => ReachesCycle(gb.roots[gb.next - 1])
\* oP names oC and oA, oC names oA (a diamond), and oP lists an object twice;
\* oP has been added without an error
C40_Witness ==
    /\ gb.objs # EmptyMap /\ gb.err = "none" /\ "oP" \in DOMAIN gb.by_obj
    /\ {"oA", "oC"} \subseteq Range(gb.objs.oP.runDeps)
    /\ gb.objs.oC.runDeps = <<"oA">>
    /\ Len(gb.objs.oP.runDeps) = 3
\* the Package nodes the maps hold, with the nodes these name as dependencies
NodesOf(by_obj) ==
    LET top == {by_obj[o] : o \in DOMAIN by_obj} IN
    top \cup UNION {Range(n.run_deps) \cup Range(n.build_deps) : n \in top}
\* one node per content hash: nodes with one hash are one node, which by_hash
\* registers under that hash
OneNodePerHash(by_obj, by_hash) ==
    /\ \A n1, n2 \in NodesOf(by_obj) : n1.hash = n2.hash => n1 = n2
    /\ \A n \in NodesOf(by_obj) : n.hash \in DOMAIN by_hash /\ by_hash[n.hash] = n
    /\ \A h \in DOMAIN by_hash : by_hash[h].hash = h
\* C34: on one builder there is at most one Package node per content hash,
\* whatever was added and whether or not the last item failed, and also after one
\* more object is built: an object whose hash is registered gets the registered
\* node, which is recorded for the object's identity; an object already built is
\* not built again, its node stays the one recorded.
C34_OneNodePerHash ==
    /\ [](/\ OneNodePerHash(gb.by_obj, gb.by_hash)
          /\ \A o \in DOMAIN gb.objs :
                LET r == VisitFrom(o, {}) IN
                /\ OneNodePerHash(r.by_obj, r.by_hash)
                /\ r.err = "none" => o \in DOMAIN r.by_obj /\ r.by_obj[o] = r.pkg
                /\ o \in DOMAIN gb.by_obj
                      => r.pkg = gb.by_obj[o] /\ r.by_obj = gb.by_obj /\ r.by_hash = gb.by_hash)
    /\ [][\A o \in DOMAIN gb.by_obj :
             o \in DOMAIN gb'.by_obj /\ gb'.by_obj[o] = gb.by_obj[o]]_vars
\* oA and oB differ in name only: both are added and oB has the node made for oA
C34_Witness ==
    /\ gb.objs # EmptyMap /\ {"oA", "oB"} \subseteq DOMAIN gb.by_obj
    /\ gb.objs.oB.name # gb.objs.oA.name
    /\ gb.by_obj["oB"] = gb.by_obj["oA"] /\ gb.by_obj["oB"].name = gb.objs.oA.name
    /\ Cardinality(DOMAIN gb.by_hash) < Cardinality(DOMAIN gb.by_obj)
\* what compute_hash is given for object o: the build script, the (filename,
\* sha256) pairs in order, the hashes of the run and of the build dependencies
HashInput(o) ==
    LET DepHashes(list) == [i \in DOMAIN list |-> gb.by_obj[list[i]].hash]
        f == gb.objs[o].fetch IN
    <<gb.objs[o].build, [i \in DOMAIN f |-> <<f[i].filename, f[i].sha256>>],
      DepHashes(gb.objs[o].runDeps), DepHashes(gb.objs[o].buildDeps)>>
\* C33: two packages that differ in the build script, in the ordered (filename,
\* sha256) pairs, or in the ordered hash lists of their run or build
\* dependencies are hashed over different byte strings, whatever strings the
\* manifest supplies: their hashes differ.
C33_EncodingUnambiguous ==
    \A o1, o2 \in DOMAIN gb.by_obj :
        HashInput(o1) # HashInput(o2) => gb.by_obj[o1].hash # gb.by_obj[o2].hash
\* the caller of worker w's fetcher is inside download(), waiting for the reply
Waiting(w) == pc[w] = "cf_stream" /\ is_torrent_url(CurUrl(w))
\* the Download requests of w's fetcher that are queued or being handled
Outstanding(w) == Len(ts.wk[w].q) + (IF ts.wk[w].st = "busy" THEN 1 ELSE 0)
DropStep(w) == ts.wk[w].st \in {"idle", "busy"} /\ ts'.wk[w].st = "stopped"
\* C32: once a fetcher has been shut down (Shutdown sent by Drop), its worker
\* handles no further request, the worker has ended and the session directory
\* is gone; and the session lock is held by the fetcher for as long as the
\* session directory exists, from its creation to that removal.
C32_ShutdownRemovesSession ==
    /\ [][\A w \in Workers :
             /\ DropStep(w) => /\ ts.wk[w].st = "idle" /\ ts.wk[w].q = <<>>
                               /\ ~ts'.sess[w].dir /\ ts'.sess[w].held = "none"
             /\ ts.wk[w].st = "stopped" /\ ts'.wk[w].st # "stopped" => FetcherCreated(w) \/ pc[w] = "tf_lock"]_vars
    /\ [](\A w \in Workers : ts.wk[w].st = "stopped" => ts.wk[w].q = <<>> /\ ~Waiting(w))
    /\ [](\A w \in Workers : ts.sess[w].dir => ts.sess[w].held = "own")
====
